---- MODULE Spec2Model ----
(***************************************************************************)
(* Model of keyboard/keyboard_predictive.py: the predictive-text engine    *)
(* (learning store, offline scorer and predictor, network monitor, remote  *)
(* client with cache and retries, fusion, and the orchestrating            *)
(* get_predictive_suggestions).                                            *)
(*                                                                         *)
(* Conventions.  A Python str is a sequence of one-character strings, so   *)
(* that len, startswith, upper, strip, split and replace are computed.     *)
(* A Python dict is a sequence of entries in insertion order (the order    *)
(* dict iteration and the stable sort depend on).  Time is in whole        *)
(* seconds.  A float score is a fixed-point integer in units of            *)
(* 1/ScoreScale; the weighted merge compares exact rationals over a        *)
(* common denominator.  Where a loop hands on a value it has built,        *)
(* CHOOSE r \in {F(x) : x \in {e}} : TRUE  is  LET x == e IN F(x)  with e    *)
(* computed once.                                                          *)
(***************************************************************************)
EXTENDS Integers, Sequences, FiniteSets, TLC

VARIABLES
    config,             \* the module global config (the options the engine reads)
    predictive_data,    \* the module global predictive_data (the learning store)
    network_available,  \* _network_available
    last_network_check, \* _last_network_check
    api_cache,          \* _api_cache: entries [key, value, timestamp], insertion order
    now,                \* the clock read by time.time() and datetime.now()
    ret,                \* the call in progress: what it did and returns ("idle": none)
    history,            \* what the environment saw of earlier calls: per cache key
                        \* the last remote fetch, and the last commits
    files,              \* what CONFIG_FILE and PREDICTIVE_FILE hold
    monitor,            \* the threads inside is_network_available, and its lock
    committers,         \* the threads inside update_word_usage
    fetchers,           \* the threads inside get_online_predictions, and the cache lock
    trivia              \* the TriviaGame window: its fields, widgets and pending callbacks

vars == <<config, predictive_data, network_available, last_network_check,
          api_cache, now, ret, history, files, monitor, committers,
          fetchers, trivia>>

-----------------------------------------------------------------------------
(* Python str operations *)

SP == " "
BAR == "|"

Upper(c) ==
    CASE c = "a" -> "A" [] c = "e" -> "E" [] c = "g" -> "G" [] c = "h" -> "H"
      [] c = "i" -> "I" [] c = "m" -> "M" [] c = "n" -> "N" [] c = "o" -> "O"
      [] c = "t" -> "T" [] c = "y" -> "Y" [] c = "r" -> "R" [] c = "d" -> "D"
      [] OTHER -> c

Lower(c) ==
    CASE c = "A" -> "a" [] c = "E" -> "e" [] c = "G" -> "g" [] c = "H" -> "h"
      [] c = "I" -> "i" [] c = "M" -> "m" [] c = "N" -> "n" [] c = "O" -> "o"
      [] c = "T" -> "t" [] c = "Y" -> "y" [] c = "R" -> "r" [] c = "D" -> "d"
      [] OTHER -> c

UpperStr(s) == [i \in 1..Len(s) |-> Upper(s[i])]

LowerStr(s) == [i \in 1..Len(s) |-> Lower(s[i])]

IsNotMarker(c) == c # BAR

\* s.replace("|", "")
RemoveMarker(s) == SelectSeq(s, IsNotMarker)

Take(s, n) == SubSeq(s, 1, IF n < Len(s) THEN n ELSE Len(s))

RECURSIVE LStrip(_)
LStrip(s) == IF s # <<>> /\ Head(s) = SP THEN LStrip(Tail(s)) ELSE s

RECURSIVE RStrip(_)
RStrip(s) == IF s # <<>> /\ s[Len(s)] = SP THEN RStrip(SubSeq(s, 1, Len(s) - 1)) ELSE s

\* s.strip()
Strip(s) == LStrip(RStrip(s))

\* s.rstrip("|")
RECURSIVE RStripMarker(_)
RStripMarker(s) ==
    IF s # <<>> /\ s[Len(s)] = BAR THEN RStripMarker(SubSeq(s, 1, Len(s) - 1)) ELSE s

\* s.endswith(" ")
EndsWithSpace(s) == s # <<>> /\ s[Len(s)] = SP

\* s.startswith(p)
StartsWith(s, p) == Len(p) <= Len(s) /\ SubSeq(s, 1, Len(p)) = p

\* s.split(): the maximal runs of non-space characters
RECURSIVE SplitFrom(_, _, _)
SplitFrom(s, cur, acc) ==
    IF s = <<>> THEN (IF cur = <<>> THEN acc ELSE Append(acc, cur))
    ELSE IF Head(s) = SP
         THEN SplitFrom(Tail(s), <<>>, IF cur = <<>> THEN acc ELSE Append(acc, cur))
         ELSE SplitFrom(Tail(s), Append(cur, Head(s)), acc)

Split(s) == SplitFrom(s, <<>>, <<>>)

\* " ".join(ws)
RECURSIVE Join(_)
Join(ws) ==
    IF ws = <<>> THEN <<>>
    ELSE IF Len(ws) = 1 THEN ws[1]
    ELSE ws[1] \o <<SP>> \o Join(Tail(ws))

Last(s) == s[Len(s)]

Front(s) == SubSeq(s, 1, Len(s) - 1)

\* the set of elements of a sequence
Range(s) == {s[i] : i \in 1..Len(s)}

\* the words of a list of (word, score) pairs
WordsOf(ps) == [i \in 1..Len(ps) |-> ps[i].word]

-----------------------------------------------------------------------------
(* Python dict operations on the learning store: entries [key, count, last_used] *)

DictHas(d, k) == \E i \in 1..Len(d) : d[i].key = k

DictIndex(d, k) == CHOOSE i \in 1..Len(d) : d[i].key = k

DictGet(d, k) == d[DictIndex(d, k)]

-----------------------------------------------------------------------------
(* OfflineScorer *)

\* the unit of a score: 1.0 is ScoreScale
ScoreScale == 100

\* recency = 1 / (time_diff + 1)
Recency(time_diff) == ScoreScale \div (time_diff + 1)

\* a bonus with one step only, at seven days
RecencyBonusOneStep(time_diff) ==
    IF time_diff < 604800 THEN 5000 ELSE 0

RecencyBonus(time_diff) ==
    IF time_diff < 3600 THEN 10000
    ELSE IF time_diff < 604800 THEN 5000
    ELSE 0

\* a scorer that gives trigrams the multiplier of bigrams
compute_ngram_score_one_multiplier(data, ngram_type, candidate, current_word, t) ==
    LET time_diff == t - data.last_used
        delta == Len(candidate) - Len(current_word)
    IN  5 * (data.count * ScoreScale + Recency(time_diff))
          + RecencyBonus(time_diff) * ScoreScale
          + (delta * 20 + (IF delta > 3 THEN 40 ELSE 0)) * ScoreScale

compute_ngram_score(data, ngram_type, candidate, current_word, t) ==
    LET time_diff == t - data.last_used
        multiplier == IF ngram_type = "trigrams" THEN 10 ELSE 5
        base_score == multiplier * (data.count * ScoreScale + Recency(time_diff))
                        + RecencyBonus(time_diff) * ScoreScale
        delta == Len(candidate) - Len(current_word)
        letter_bonus == delta * 20
        extra_letter_bonus == IF delta > 3 THEN 40 ELSE 0
    IN  base_score + (letter_bonus + extra_letter_bonus) * ScoreScale

compute_freq_score(data, t) ==
    LET time_diff == t - data.last_used
    IN  data.count * ScoreScale + Recency(time_diff) * 20
          + RecencyBonus(time_diff) * ScoreScale

-----------------------------------------------------------------------------
(* sorted(items, key=lambda x: -x[1]): a stable sort, descending by score *)

RECURSIVE InsertDesc(_, _)
InsertDesc(sorted, p) ==
    IF sorted = <<>> THEN <<p>>
    ELSE IF Head(sorted).score >= p.score
         THEN <<Head(sorted)>> \o InsertDesc(Tail(sorted), p)
         ELSE <<p>> \o sorted

RECURSIVE SortDescFrom(_, _)
SortDescFrom(ps, acc) ==
    IF ps = <<>> THEN acc
    ELSE CHOOSE r \in {SortDescFrom(Tail(ps), a) : a \in {InsertDesc(acc, Head(ps))}} : TRUE

SortDesc(ps) == SortDescFrom(ps, <<>>)

-----------------------------------------------------------------------------
(* OfflinePredictor: get_offline_predictions_with_scores *)

DEFAULT_WORDS == << <<"Y", "E", "S">>, <<"N", "O">>, <<"H", "E", "L", "P">> >>

HasWord(ps, w) == \E i \in 1..Len(ps) : ps[i].word = w

\* predictions[w] = predictions.get(w, 0) + s
AddScore(preds, w, s) ==
    IF HasWord(preds, w)
    THEN [i \in 1..Len(preds) |->
            IF preds[i].word = w
            THEN [word |-> w, score |-> preds[i].score + s]
            ELSE preds[i]]
    ELSE Append(preds, [word |-> w, score |-> s])

\* one scan of Tier 1 over the trigrams or the bigrams
RECURSIVE ScanNgrams(_, _, _, _, _, _)
ScanNgrams(entries, ngram_type, ctx, current_word, t, preds) ==
    IF entries = <<>> THEN preds
    ELSE LET data == Head(entries)
             next_word == Last(Split(data.key))
             accepted ==
                 /\ StartsWith(data.key, ctx \o <<SP>>)
                 /\ (current_word = <<>> \/ StartsWith(next_word, current_word))
                 /\ Len(next_word) >= 2
                 /\ data.count >= 1
             preds2 ==
                 IF accepted
                 THEN AddScore(preds, next_word,
                          compute_ngram_score(data, ngram_type, next_word, current_word, t))
                 ELSE preds
         IN  CHOOSE r \in {ScanNgrams(Tail(entries), ngram_type, ctx, current_word, t, p) :
                              p \in {preds2}} : TRUE

\* a variant of Tier 1 that is entered whenever there is a context
NgramPredictionsAnyContext(pd, context, current_word, has_trailing_space, t) ==
    IF context # <<>>
    THEN LET ctx_words == Split(context)
             tri_ctx == IF Len(ctx_words) >= 2
                        THEN Join(SubSeq(ctx_words, Len(ctx_words) - 1, Len(ctx_words)))
                        ELSE context
             tri == ScanNgrams(pd.trigrams, "trigrams", tri_ctx, current_word, t, <<>>)
         IN  ScanNgrams(pd.bigrams, "bigrams", Last(ctx_words), current_word, t, tri)
    ELSE <<>>

\* Tier 1
NgramPredictions(pd, context, current_word, has_trailing_space, t) ==
    IF context # <<>> /\ (has_trailing_space \/ context # current_word)
    THEN LET ctx_words == Split(context)
             tri_ctx == IF Len(ctx_words) >= 2
                        THEN Join(SubSeq(ctx_words, Len(ctx_words) - 1, Len(ctx_words)))
                        ELSE context
             bi_ctx == IF Len(ctx_words) >= 1 THEN Last(ctx_words) ELSE <<>>
             tri == ScanNgrams(pd.trigrams, "trigrams", tri_ctx, current_word, t, <<>>)
         IN  ScanNgrams(pd.bigrams, "bigrams", bi_ctx, current_word, t, tri)
    ELSE <<>>

\* Tier 2
RECURSIVE FreqPredictions(_, _, _, _)
FreqPredictions(entries, current_word, t, preds) ==
    IF entries = <<>> THEN preds
    ELSE LET data == Head(entries)
             word == data.key
             preds2 ==
                 IF StartsWith(word, current_word) /\ word # current_word /\ Len(word) >= 2
                 THEN Append(preds, [word |-> word, score |-> compute_freq_score(data, t)])
                 ELSE preds
         IN  CHOOSE r \in {FreqPredictions(Tail(entries), current_word, t, p) :
                              p \in {preds2}} : TRUE

\* a variant of the frequent-word loop that does not look for the word in final
RECURSIVE AppendFreqRepeating(_, _, _)
AppendFreqRepeating(final, sorted_freq, n) ==
    IF sorted_freq = <<>> THEN final
    ELSE CHOOSE r \in {IF Len(f) >= n THEN f
                       ELSE AppendFreqRepeating(f, Tail(sorted_freq), n) :
                          f \in {Append(final, Head(sorted_freq))}} : TRUE

\* Tier 3, the frequent-word loop (entered with len(final) < n)
RECURSIVE AppendFreq(_, _, _)
AppendFreq(final, sorted_freq, n) ==
    IF sorted_freq = <<>> THEN final
    ELSE LET p == Head(sorted_freq)
             final2 == IF HasWord(final, p.word) THEN final ELSE Append(final, p)
         IN  CHOOSE r \in {IF Len(f) >= n THEN f ELSE AppendFreq(f, Tail(sorted_freq), n) :
                              f \in {final2}} : TRUE

\* the default-word loop
RECURSIVE AppendDefaults(_, _, _)
AppendDefaults(final, defaults, n) ==
    IF defaults = <<>> THEN final
    ELSE LET final2 == IF Len(final) < n /\ ~HasWord(final, Head(defaults))
                       THEN Append(final, [word |-> Head(defaults), score |-> ScoreScale])
                       ELSE final
         IN  CHOOSE r \in {AppendDefaults(f, Tail(defaults), n) : f \in {final2}} : TRUE

\* a variant of Tier 0 that takes the frequent words of any length
RECURSIVE DefaultPredictionsAnyLength(_, _, _)
DefaultPredictionsAnyLength(entries, t, preds) ==
    IF entries = <<>> THEN preds
    ELSE CHOOSE r \in {DefaultPredictionsAnyLength(Tail(entries), t, p) :
                          p \in {Append(preds, [word |-> Head(entries).key,
                                                score |-> compute_freq_score(Head(entries), t)])}} :
                    TRUE

\* Tier 0: the frequent words of at least 2 characters
RECURSIVE DefaultPredictions(_, _, _)
DefaultPredictions(entries, t, preds) ==
    IF entries = <<>> THEN preds
    ELSE LET data == Head(entries)
             preds2 ==
                 IF Len(data.key) >= 2
                 THEN Append(preds, [word |-> data.key, score |-> compute_freq_score(data, t)])
                 ELSE preds
         IN  CHOOSE r \in {DefaultPredictions(Tail(entries), t, p) : p \in {preds2}} : TRUE

get_offline_predictions_with_scores(pd, text, num_suggestions, t) ==
    LET has_trailing_space == EndsWithSpace(RStripMarker(text))
        cleaned == Strip(RemoveMarker(UpperStr(text)))
        words == Split(cleaned)
    IN  IF words = <<>>
        THEN LET sorted_default == SortDesc(DefaultPredictions(pd.frequent_words, t, <<>>))
                 result == Take(sorted_default, num_suggestions)
             IN  Take(AppendDefaults(result, DEFAULT_WORDS, num_suggestions), num_suggestions)
        ELSE LET current_word == IF has_trailing_space THEN <<>> ELSE Last(words)
                 context == IF has_trailing_space THEN cleaned ELSE Join(Front(words))
                 predictions_ngram ==
                     NgramPredictions(pd, context, current_word, has_trailing_space, t)
                 predictions_freq == FreqPredictions(pd.frequent_words, current_word, t, <<>>)
                 final1 == SortDesc(predictions_ngram)
                 final2 == IF Len(final1) < num_suggestions
                           THEN AppendFreq(final1, SortDesc(predictions_freq), num_suggestions)
                           ELSE final1
                 final3 == AppendDefaults(final2, DEFAULT_WORDS, num_suggestions)
             IN  Take(final3, num_suggestions)

-----------------------------------------------------------------------------
(* OfflinePredictor: get_offline_predictions, the variant that returns words *)

Contains(ws, w) == \E i \in 1..Len(ws) : ws[i] = w

\* a variant of the default-word loop that does not look for the word in final
RECURSIVE AppendDefaultWordsRepeating(_, _)
AppendDefaultWordsRepeating(final, defaults) ==
    IF defaults = <<>> THEN final
    ELSE AppendDefaultWordsRepeating(Append(final, Head(defaults)), Tail(defaults))

\* the default-word loop of lines 207-209 and 279-281: no test of the length
RECURSIVE AppendDefaultWords(_, _)
AppendDefaultWords(final, defaults) ==
    IF defaults = <<>> THEN final
    ELSE CHOOSE r \in {AppendDefaultWords(f, Tail(defaults)) :
                          f \in {IF Contains(final, Head(defaults)) THEN final
                                 ELSE Append(final, Head(defaults))}} : TRUE

\* the frequent-word loop of lines 272-277 (entered with len(final) < n)
RECURSIVE AppendFreqWords(_, _, _)
AppendFreqWords(final, sorted_freq, n) ==
    IF sorted_freq = <<>> THEN final
    ELSE CHOOSE r \in {IF Len(f) >= n THEN f ELSE AppendFreqWords(f, Tail(sorted_freq), n) :
                          f \in {IF Contains(final, Head(sorted_freq)) THEN final
                                 ELSE Append(final, Head(sorted_freq))}} : TRUE

get_offline_predictions(pd, text, num_suggestions, t) ==
    LET has_trailing_space == EndsWithSpace(RStripMarker(text))
        cleaned == Strip(RemoveMarker(UpperStr(text)))
        words == Split(cleaned)
    IN  IF words = <<>>
        THEN LET sorted_default == SortDesc(DefaultPredictions(pd.frequent_words, t, <<>>))
                 final == WordsOf(Take(sorted_default, num_suggestions))
             IN  Take(AppendDefaultWords(final, DEFAULT_WORDS), num_suggestions)
        ELSE LET current_word == IF has_trailing_space THEN <<>> ELSE Last(words)
                 context == IF has_trailing_space THEN cleaned ELSE Join(Front(words))
                 predictions_ngram ==
                     NgramPredictions(pd, context, current_word, has_trailing_space, t)
                 predictions_freq == FreqPredictions(pd.frequent_words, current_word, t, <<>>)
                 final1 == WordsOf(SortDesc(predictions_ngram))
                 final2 == IF Len(final1) < num_suggestions
                           THEN AppendFreqWords(final1, WordsOf(SortDesc(predictions_freq)),
                                                num_suggestions)
                           ELSE final1
                 final3 == AppendDefaultWords(final2, DEFAULT_WORDS)
             IN  Take(final3, num_suggestions)

-----------------------------------------------------------------------------
(* NetworkMonitor *)

\* _network_check_interval
NetworkCheckInterval == 30

\* What one urlopen of the probe can do: succeed, raise URLError, raise another
\* OSError (a timeout, a reset connection), or raise an exception that is neither
\* (http.client.HTTPException on a malformed reply).
ProbeOutcomes == {"ok", "url_error", "os_error", "other_error"}

ProbeCaught(outcome) == outcome \in {"url_error", "os_error"}

\* check_network_connectivity: [raised, value, probes]
check_network_connectivity(p1, p2) ==
    IF p1 = "ok" THEN [raised |-> FALSE, value |-> TRUE, probes |-> 1]
    ELSE IF ProbeCaught(p1)
    THEN IF p2 = "ok" THEN [raised |-> FALSE, value |-> TRUE, probes |-> 2]
         ELSE IF ProbeCaught(p2) THEN [raised |-> FALSE, value |-> FALSE, probes |-> 2]
         ELSE [raised |-> TRUE, value |-> FALSE, probes |-> 2]
    ELSE [raised |-> TRUE, value |-> FALSE, probes |-> 1]

\* is_network_available at time t, from the cached state (avail, last):
\* [raised, value, avail, last, probes]
is_network_available(avail, last, t, p1, p2) ==
    IF t - last > NetworkCheckInterval
    THEN LET c == check_network_connectivity(p1, p2)
         IN  IF c.raised
             THEN [raised |-> TRUE, value |-> FALSE, avail |-> avail, last |-> last,
                   probes |-> c.probes]
             ELSE [raised |-> FALSE, value |-> c.value, avail |-> c.value, last |-> t,
                   probes |-> c.probes]
    ELSE [raised |-> FALSE, value |-> avail, avail |-> avail, last |-> last, probes |-> 0]

-----------------------------------------------------------------------------
(* RemoteClient *)

\* the cache size limit of get_online_predictions
CacheLimit == 100

\* What one request can meet.  A failure of the transport or of decoding
\* (HTTPError, URLError, a status other than 200, JSONDecodeError, any other
\* exception), a decoded body that is not an object or whose "results" has no
\* len() (both raise inside the try block of _make_api_request):
FailureKinds == {"http_error", "url_error", "non_200", "bad_json", "unexpected_error",
                 "json_not_object", "results_no_len"}

\* or a decoded object with a "results" list (items).  An item is an object with
\* a "text" string ("text"), an object with only a "word" string ("word"), an
\* object with neither ("empty"), an object whose "text" is not a string
\* ("text_not_string"), or a value that is not an object ("not_object").
Failure(kind) == [kind |-> kind, items |-> <<>>]

Body(items) == [kind |-> "json_dict", items |-> items]

Item(kind, val) == [kind |-> kind, val |-> val]

\* _make_api_request: the decoded body, or None
None == [kind |-> "None", items |-> <<>>]

make_api_request(outcome) ==
    IF outcome.kind = "json_dict" THEN outcome ELSE None

\* _get_cache_key
get_cache_key(left_context, prefix) == UpperStr(left_context \o <<BAR>> \o prefix)

CacheHas(cache, k) == \E i \in 1..Len(cache) : cache[i].key = k

CacheGet(cache, k) == cache[CHOOSE i \in 1..Len(cache) : cache[i].key = k]

\* current_time - timestamp < cache_ttl
CacheFresh(timestamp, t, cache_ttl) == t - timestamp < cache_ttl

\* del _api_cache[k]
CacheDel(cache, k) == SelectSeq(cache, LAMBDA e : e.key # k)

\* the key written first, whatever its timestamp
FirstKey(cache) == cache[1].key

\* min(_api_cache.keys(), key=lambda k: _api_cache[k][1]): the first of the oldest
OldestKey(cache) ==
    LET stamps == {cache[i].timestamp : i \in 1..Len(cache)}
        oldest == CHOOSE x \in stamps : \A y \in stamps : x <= y
        first == CHOOSE i \in {j \in 1..Len(cache) : cache[j].timestamp = oldest} :
                     \A j \in {m \in 1..Len(cache) : cache[m].timestamp = oldest} : i <= j
    IN  cache[first].key

CachePutNothing(cache, k, predictions, t) == cache

\* a variant that keeps only non-empty results
CachePutUnlessEmpty(cache, k, predictions, t) ==
    IF predictions = <<>> THEN cache
    ELSE IF CacheHas(cache, k)
    THEN [i \in 1..Len(cache) |->
            IF cache[i].key = k THEN [key |-> k, value |-> predictions, timestamp |-> t]
            ELSE cache[i]]
    ELSE Append(cache, [key |-> k, value |-> predictions, timestamp |-> t])

\* _api_cache[k] = (predictions, current_time), then the size check
CachePut(cache, k, predictions, t) ==
    LET e == [key |-> k, value |-> predictions, timestamp |-> t]
        put == IF CacheHas(cache, k)
               THEN [i \in 1..Len(cache) |-> IF cache[i].key = k THEN e ELSE cache[i]]
               ELSE Append(cache, e)
    IN  IF Len(put) > CacheLimit THEN CacheDel(put, OldestKey(put)) ELSE put

RECURSIVE RetryLoopOneShort(_, _, _)
RetryLoopOneShort(endpoint, max_retries, attempt) ==
    IF attempt >= max_retries THEN [api_data |-> None, requests |-> attempt]
    ELSE LET api_data == make_api_request(endpoint[attempt + 1])
         IN  IF api_data # None
             THEN [api_data |-> api_data, requests |-> attempt + 1]
             ELSE RetryLoopOneShort(endpoint, max_retries, attempt + 1)

\* the retry loop: attempt number `attempt` (from 0) meets endpoint[attempt + 1]
RECURSIVE RetryLoop(_, _, _)
RetryLoop(endpoint, max_retries, attempt) ==
    IF attempt > max_retries THEN [api_data |-> None, requests |-> attempt]
    ELSE LET api_data == make_api_request(endpoint[attempt + 1])
         IN  IF api_data # None
             THEN [api_data |-> api_data, requests |-> attempt + 1]
             ELSE RetryLoop(endpoint, max_retries, attempt + 1)

\* the parsing loop over results: [raised, predictions]
RECURSIVE ParseResults(_, _)
ParseResults(items, predictions) ==
    IF items = <<>> THEN [raised |-> FALSE, predictions |-> predictions]
    ELSE LET result == Head(items)
         IN  IF result.kind \in {"not_object", "text_not_string"}
             THEN [raised |-> TRUE, predictions |-> predictions]
             ELSE LET word == IF result.kind \in {"text", "word"}
                              THEN UpperStr(result.val) ELSE <<>>
                  IN  ParseResults(Tail(items),
                          IF Len(word) >= 2 THEN Append(predictions, word) ELSE predictions)

\* get_online_predictions at time t: [raised, value, cache, avail, last, requests,
\* probes, hit, reached]; reached: the network check let the call go on
get_online_predictions(cfg, cache, avail, last, left_context, prefix, t, p1, p2, endpoint) ==
    LET net == is_network_available(avail, last, t, p1, p2)
        base == [raised |-> FALSE, value |-> <<>>, cache |-> cache, avail |-> net.avail,
                 last |-> net.last, requests |-> 0, probes |-> net.probes, hit |-> FALSE,
                 reached |-> ~net.raised /\ net.value]
    IN  IF net.raised \/ ~net.value THEN base
        ELSE
        LET cache_key == get_cache_key(left_context, prefix)
            fresh == CacheHas(cache, cache_key)
                       /\ CacheFresh(CacheGet(cache, cache_key).timestamp, t, cfg.cache_ttl)
            cache1 == IF CacheHas(cache, cache_key) THEN CacheDel(cache, cache_key) ELSE cache
            loop == RetryLoop(endpoint, cfg.api_max_retries, 0)
            parsed == ParseResults(loop.api_data.items, <<>>)
        IN  IF fresh
            THEN [base EXCEPT !.value = CacheGet(cache, cache_key).value, !.hit = TRUE]
            ELSE IF loop.api_data = None
            THEN [base EXCEPT !.cache = cache1, !.requests = loop.requests]
            ELSE IF parsed.raised
            THEN [base EXCEPT !.raised = TRUE, !.cache = cache1, !.requests = loop.requests]
            ELSE [base EXCEPT !.value = parsed.predictions,
                              !.cache = CachePut(cache1, cache_key, parsed.predictions, t),
                              !.requests = loop.requests]

-----------------------------------------------------------------------------
(* Fusion.  Weights are in tenths (api_weight 0.7 is 7). *)

\* one loop of the priority merges:
\*   for word in ws: if word not in result: result.append(word);
\*                                          if len(result) >= n: break
\* a variant of the loop without the membership test
RECURSIVE FillFromRepeating(_, _, _)
FillFromRepeating(result, ws, n) ==
    IF ws = <<>> THEN result
    ELSE IF Len(result) + 1 >= n THEN Append(result, Head(ws))
    ELSE FillFromRepeating(Append(result, Head(ws)), Tail(ws), n)

RECURSIVE FillFrom(_, _, _)
FillFrom(result, ws, n) ==
    IF ws = <<>> THEN result
    ELSE IF Head(ws) \in Range(result) THEN FillFrom(result, Tail(ws), n)
    ELSE CHOOSE r \in {IF Len(result2) >= n THEN result2 ELSE FillFrom(result2, Tail(ws), n) :
                         result2 \in {Append(result, Head(ws))}} : TRUE

merge_api_first(offline_predictions, online_predictions, num_suggestions) ==
    FillFrom(FillFrom(<<>>, online_predictions, num_suggestions),
             WordsOf(offline_predictions), num_suggestions)

merge_offline_first(offline_predictions, online_predictions, num_suggestions) ==
    FillFrom(FillFrom(<<>>, WordsOf(offline_predictions), num_suggestions),
             online_predictions, num_suggestions)

MaxScore(ps) ==
    IF ps = <<>> THEN 1
    ELSE CHOOSE m \in {ps[i].score : i \in 1..Len(ps)} :
             \A i \in 1..Len(ps) : ps[i].score <= m

\* unified_scores[word] = value
SetScore(unified, w, s) ==
    IF HasWord(unified, w)
    THEN [i \in 1..Len(unified) |->
            IF unified[i].word = w THEN [word |-> w, score |-> s] ELSE unified[i]]
    ELSE Append(unified, [word |-> w, score |-> s])

\* The unified scores are kept as numerators over the common denominator
\* 10 * max_offline_score * len(online_predictions).
RECURSIVE UnifyOffline(_, _, _, _, _)
UnifyOffline(ps, max_offline_score, scale, offline_weight, unified) ==
    IF ps = <<>> THEN unified
    ELSE LET unified2 == SetScore(unified, Head(ps).word,
                              IF max_offline_score > 0
                              THEN Head(ps).score * offline_weight * scale
                              ELSE 0)
         IN  CHOOSE r \in {UnifyOffline(Tail(ps), max_offline_score, scale, offline_weight, u) :
                              u \in {unified2}} : TRUE

RECURSIVE UnifyOnlineOverwriting(_, _, _, _, _, _)
UnifyOnlineOverwriting(ws, i, n_online, scale, api_weight, unified) ==
    IF ws = <<>> THEN unified
    ELSE LET unified2 == SetScore(unified, Head(ws), (n_online - i) * api_weight * scale)
         IN  CHOOSE r \in {UnifyOnlineOverwriting(Tail(ws), i + 1, n_online, scale,
                                                  api_weight, u) : u \in {unified2}} : TRUE

RECURSIVE UnifyOnline(_, _, _, _, _, _)
UnifyOnline(ws, i, n_online, scale, api_weight, unified) ==
    IF ws = <<>> THEN unified
    ELSE LET unified2 == AddScore(unified, Head(ws), (n_online - i) * api_weight * scale)
         IN  CHOOSE r \in {UnifyOnline(Tail(ws), i + 1, n_online, scale, api_weight, u) :
                              u \in {unified2}} : TRUE

\* the unified_scores mapping of _merge_weighted, in insertion order
UnifiedScores(offline_predictions, online_predictions, api_weight, offline_weight) ==
    LET max_offline_score == MaxScore(offline_predictions)
        n_online == Len(online_predictions)
        off == UnifyOffline(offline_predictions, max_offline_score,
                            IF n_online > 0 THEN n_online ELSE 1, offline_weight, <<>>)
    IN  UnifyOnline(online_predictions, 0, n_online,
                    IF max_offline_score > 0 THEN max_offline_score ELSE 1,
                    api_weight, off)

merge_weighted(offline_predictions, online_predictions, num_suggestions, api_weight, offline_weight) ==
    WordsOf(Take(SortDesc(UnifiedScores(offline_predictions, online_predictions,
                                        api_weight, offline_weight)),
                 num_suggestions))

\* a dispatch that knows the three strategy names only, and gives nothing otherwise
merge_predictions_by_name(cfg, offline_predictions, online_predictions, num_suggestions) ==
    IF cfg.merge_strategy = "api_first"
    THEN merge_api_first(offline_predictions, online_predictions, num_suggestions)
    ELSE IF cfg.merge_strategy = "offline_first"
    THEN merge_offline_first(offline_predictions, online_predictions, num_suggestions)
    ELSE IF cfg.merge_strategy = "weighted"
    THEN merge_weighted(offline_predictions, online_predictions, num_suggestions,
                        cfg.api_weight, cfg.offline_weight)
    ELSE <<>>

merge_predictions(cfg, offline_predictions, online_predictions, num_suggestions) ==
    IF cfg.merge_strategy = "api_first"
    THEN merge_api_first(offline_predictions, online_predictions, num_suggestions)
    ELSE IF cfg.merge_strategy = "offline_first"
    THEN merge_offline_first(offline_predictions, online_predictions, num_suggestions)
    ELSE merge_weighted(offline_predictions, online_predictions, num_suggestions,
                        cfg.api_weight, cfg.offline_weight)

-----------------------------------------------------------------------------
(* PredictionService: get_predictive_suggestions *)

online_mode_always(cfg) == TRUE

\* is_online_mode_enabled()
is_online_mode_enabled(cfg) == cfg.online_mode_enabled

UseOnlineWhateverTheNetwork(enabled, available) == enabled

\* use_online = is_online_mode_enabled() and is_network_available()
UseOnline(enabled, available) == enabled /\ available

\* (left_context, prefix) for the remote service
OnlineQuery(text) ==
    LET has_trailing_space == EndsWithSpace(RStripMarker(text))
        cleaned == Strip(RemoveMarker(UpperStr(text)))
        words == Split(cleaned)
    IN  IF has_trailing_space THEN [left_context |-> cleaned, prefix |-> <<>>]
        ELSE IF words # <<>>
        THEN [left_context |-> Join(Front(words)), prefix |-> Last(words)]
        ELSE [left_context |-> <<>>, prefix |-> <<>>]

\* What the call did: raised (an exception reached the caller), value (the list
\* returned), and the calls it made on the way.
\* a variant of `and` that evaluates both operands
RightOperandAlways(left) == TRUE

\* use_online = is_online_mode_enabled() and is_network_available() (line 304):
\* `and` evaluates its right operand only when the left one is true
RightOperandEvaluated(left) == left

get_predictive_suggestions(cfg, pd, cache, avail, last, text, num_suggestions, t, p1, p2, endpoint) ==
    LET net == IF RightOperandEvaluated(is_online_mode_enabled(cfg))
               THEN is_network_available(avail, last, t, p1, p2)
               ELSE [raised |-> FALSE, value |-> FALSE, avail |-> avail, last |-> last,
                     probes |-> 0]
        use_online == UseOnline(is_online_mode_enabled(cfg), net.value)
        offline_predictions == get_offline_predictions_with_scores(pd, text, num_suggestions, t)
        q == OnlineQuery(text)
        online == get_online_predictions(cfg, cache, net.avail, net.last,
                                         q.left_context, q.prefix, t, p1, p2, endpoint)
        base == [op |-> "get_predictive_suggestions", text |-> text, n |-> num_suggestions,
                 raised |-> FALSE, value |-> WordsOf(offline_predictions),
                 offline |-> offline_predictions, online |-> <<>>,
                 enabled |-> cfg.online_mode_enabled, available |-> net.value,
                 net_raised |-> net.raised, fetch_called |-> FALSE, fetch_raised |-> FALSE,
                 merge_called |-> FALSE, requests |-> 0, probes |-> net.probes,
                 hit |-> FALSE, cache |-> cache, avail |-> net.avail, last |-> net.last]
    IN  IF net.raised THEN [base EXCEPT !.raised = TRUE, !.value = <<>>]
        ELSE IF ~use_online THEN base
        ELSE LET fetched == [base EXCEPT !.fetch_called = TRUE,
                                         !.fetch_raised = online.raised,
                                         !.online = online.value,
                                         !.requests = online.requests,
                                         !.probes = net.probes + online.probes,
                                         !.hit = online.hit,
                                         !.cache = online.cache,
                                         !.avail = online.avail,
                                         !.last = online.last]
             IN  IF online.raised \/ online.value = <<>> THEN fetched
                 ELSE [fetched EXCEPT !.merge_called = TRUE,
                                      !.value = merge_predictions(cfg, offline_predictions,
                                                    online.value, num_suggestions)]

-----------------------------------------------------------------------------
(* LearningStore: update_word_usage *)

TouchKeepingLastUsed(d, k, timestamp) ==
    IF DictHas(d, k)
    THEN [i \in 1..Len(d) |->
            IF d[i].key = k
            THEN [key |-> k, count |-> d[i].count + 1, last_used |-> d[i].last_used]
            ELSE d[i]]
    ELSE Append(d, [key |-> k, count |-> 1, last_used |-> timestamp])

\* a variant that starts the entry afresh instead of counting on
TouchStartingAfresh(d, k, timestamp) ==
    IF DictHas(d, k)
    THEN [i \in 1..Len(d) |->
            IF d[i].key = k
            THEN [key |-> k, count |-> 1, last_used |-> timestamp]
            ELSE d[i]]
    ELSE Append(d, [key |-> k, count |-> 1, last_used |-> timestamp])

\* one word, bigram or trigram: count += 1 and last_used = timestamp, or a new entry
Touch(d, k, timestamp) ==
    IF DictHas(d, k)
    THEN [i \in 1..Len(d) |->
            IF d[i].key = k
            THEN [key |-> k, count |-> d[i].count + 1, last_used |-> timestamp]
            ELSE d[i]]
    ELSE Append(d, [key |-> k, count |-> 1, last_used |-> timestamp])

RECURSIVE TouchAll(_, _, _)
TouchAll(d, keys, timestamp) ==
    IF keys = <<>> THEN d
    ELSE CHOOSE r \in {TouchAll(d2, Tail(keys), timestamp) :
                         d2 \in {Touch(d, Head(keys), timestamp)}} : TRUE

\* the n-grams of the words, each joined with single spaces
Ngrams(words, n) ==
    IF Len(words) < n THEN <<>>
    ELSE [i \in 1..(Len(words) - n + 1) |-> Join(SubSeq(words, i, i + n - 1))]

CommitWords(text) == Split(UpperStr(Strip(RemoveMarker(text))))

update_word_usage(pd, text, timestamp) ==
    LET words == CommitWords(text)
    IN  [frequent_words |-> TouchAll(pd.frequent_words, words, timestamp),
         bigrams |-> TouchAll(pd.bigrams, Ngrams(words, 2), timestamp),
         trigrams |-> TouchAll(pd.trigrams, Ngrams(words, 3), timestamp)]

\* a variant of reading that counts the default word YES as used
ReadingCounts(pd) == [pd EXCEPT !.frequent_words = Touch(@, <<"Y", "E", "S">>, 0)]

\* The prediction functions reach predictive_data through
\* predictive_data.get(table, {}).items() and data.get(field, default) only (lines
\* 134-153, 167-177, 198-260, 420-483): the store after a prediction is the store
\* before it.
Reading(pd) == pd

-----------------------------------------------------------------------------
(* The inputs of the model *)

\* the clock at start-up, in seconds since the epoch
T0 == 1000000

\* the instants the clock is read at: start-up, and 31 s, 300 s and 331 s later
\* (past the 30 s check interval; 269 s, 300 s and 331 s apart around the 300 s TTL)
ClockTimes == {T0, T0 + 31, T0 + 300, T0 + 331}

\* the bounds: the retries a configuration may ask for, the largest word count the
\* store reaches, the suggestions a caller may ask for, the length of a list given
\* to merge_predictions
MaxRetries == 2
MaxCount == 3
MaxSuggestions == 3
MaxList == 3

DEFAULT_CONFIG ==
    [online_mode_enabled |-> TRUE, api_max_retries |-> 2, cache_ttl |-> 300,
     merge_strategy |-> "weighted", api_weight |-> 7, offline_weight |-> 3]

Strategies == {"weighted", "api_first", "offline_first"}

\* what a configuration file may give as merge_strategy: also a value that names no
\* strategy, and the empty string
ConfiguredStrategies == Strategies \cup {"round_robin", ""}

W_I == <<"I">>
W_AM == <<"A", "M">>
W_GOING == <<"G", "O", "I", "N", "G">>
W_GOOD == <<"G", "O", "O", "D">>
W_THE == <<"T", "H", "E">>
W_THERE == <<"T", "H", "E", "R", "E">>
W_THEY == <<"T", "H", "E", "Y">>

EmptyStore == [frequent_words |-> <<>>, bigrams |-> <<>>, trigrams |-> <<>>]

\* a store as load_json leaves it: uppercase keys, counts >= 1, last_used in the past
\* (THE more than a week ago, THERE within the week, the others within the hour)
SampleStore ==
    [frequent_words |->
        << [key |-> W_THE, count |-> 3, last_used |-> 0],
           [key |-> W_THERE, count |-> 1, last_used |-> T0 - 4000],
           [key |-> W_THEY, count |-> 1, last_used |-> T0 - 10],
           [key |-> W_I, count |-> 2, last_used |-> T0 - 10] >>,
     bigrams |->
        << [key |-> Join(<<W_AM, W_GOOD>>), count |-> 10, last_used |-> T0 - 10] >>,
     trigrams |->
        << [key |-> Join(<<W_I, W_AM, W_GOING>>), count |-> 5, last_used |-> T0 - 10] >>]

InitialStores == {EmptyStore, SampleStore}

\* the texts typed: "" , "I AM " with a trailing space, "TH", and "th|"
Texts ==
    { <<>>,
      <<"I", " ", "A", "M", " ">>,
      <<"T", "H">>,
      <<"t", "h", "|">> }

\* the texts committed: "I AM GOING", "am good|", "AM GOOD", "the"
CommitTexts ==
    { <<"I", " ", "A", "M", " ", "G", "O", "I", "N", "G">>,
      <<"a", "m", " ", "g", "o", "o", "d", "|">>,
      <<"A", "M", " ", "G", "O", "O", "D">>,
      <<"t", "h", "e">> }

\* the bodies the service may answer with
BodyTheThere ==
    Body(<<Item("text", <<"t", "h", "e">>), Item("text", <<"t", "h", "e", "r", "e">>)>>)

BodyThree ==
    Body(<<Item("text", <<"t", "h", "e">>), Item("word", W_THEY), Item("text", <<"a">>),
           Item("empty", <<>>), Item("text", <<"t", "h", "e">>), Item("text", W_GOOD)>>)

BodyEmpty == Body(<<>>)

BodyNotObject == Body(<<Item("text", <<"t", "h", "e">>), Item("not_object", <<>>)>>)

BodyNotString == Body(<<Item("text_not_string", <<>>)>>)

\* an endpoint that fails its first k requests (each with `kind`) and then answers body
Endpoint(k, kind, body) ==
    [i \in 1..(MaxRetries + 1) |-> IF i <= k THEN Failure(kind) ELSE body]

\* the endpoints get_predictive_suggestions meets
SuggestEndpoints ==
    {Endpoint(0, "url_error", b) : b \in {BodyThree, BodyEmpty, BodyNotObject}}
      \cup {Endpoint(1, "bad_json", BodyThree), Endpoint(MaxRetries + 1, "non_200", BodyEmpty)}

\* the endpoints get_online_predictions meets
FetchEndpoints ==
    {Endpoint(0, "url_error", b) : b \in {BodyThree, BodyEmpty, BodyNotObject, BodyNotString}}
      \cup {Endpoint(1, f, BodyThree) : f \in FailureKinds}
      \cup {Endpoint(MaxRetries, "url_error", b) : b \in {BodyThree, BodyEmpty}}
      \cup {Endpoint(MaxRetries + 1, "http_error", BodyEmpty)}

\* the (left_context, prefix) pairs get_online_predictions is asked about
FetchQueries ==
    { [left_context |-> <<>>, prefix |-> <<"T", "H">>],
      [left_context |-> <<>>, prefix |-> <<"t", "h">>] }

\* the pairs asked about when the cache is full: two keys it does not hold
CacheQueries ==
    { [left_context |-> <<>>, prefix |-> <<"T", "H">>],
      [left_context |-> <<"I", " ", "A", "M">>, prefix |-> <<>>] }

\* the endpoints met then: one that answers, one that fails every request
CacheEndpoints ==
    {Endpoint(0, "url_error", BodyTheThere), Endpoint(MaxRetries + 1, "http_error", BodyEmpty)}

\* the outcomes of the two connection attempts of a probe, when one is due at time t
Probes(last, t) ==
    IF t - last > NetworkCheckInterval
    THEN {<<"ok", "ok">>, <<"url_error", "ok">>, <<"os_error", "url_error">>,
          <<"url_error", "other_error">>, <<"other_error", "ok">>}
    ELSE {<<"ok", "ok">>}

\* the lists given to merge_predictions: words without repetition with their scores
\* (3.0 or 5.0), and words with repetitions
MergeWords == {W_THE, W_THERE, W_THEY}

SeqsUpTo(S, n) == UNION {[1..k -> S] : k \in 0..n}

OfflineLists ==
    {ps \in SeqsUpTo([word : MergeWords, score : {3 * ScoreScale, 5 * ScoreScale}], MaxList) :
        \A i, j \in 1..Len(ps) : i # j => ps[i].word # ps[j].word}

OnlineLists == SeqsUpTo(MergeWords, MaxList)

Entry(key, count, last_used) == [key |-> key, count |-> count, last_used |-> last_used]

\* the trigrams and the bigrams of the stores the offline predictor is run on, all
\* last used at `lu`
W_AMEN == <<"A", "M", "E", "N">>

\* the trigrams: none, I AM GOING, or I AM GOING with count 0 beside I AM I
OfflineTrigrams(lu) ==
    {<<>>} \cup {<<Entry(Join(<<W_I, W_AM, W_GOING>>), c, lu)>> : c \in {1, 5}}
           \cup {<<Entry(Join(<<W_I, W_AM, W_GOING>>), 0, lu),
                   Entry(Join(<<W_I, W_AM, W_I>>), 5, lu)>>}

\* the bigrams: none, AM GOOD, AM GOOD beside AM GOING, or AM AMEN
OfflineBigrams(lu) ==
    {<<>>} \cup {<<Entry(Join(<<W_AM, W_GOOD>>), c, lu)>> : c \in {1, 10}}
           \cup {<<Entry(Join(<<W_AM, W_AMEN>>), 1, lu)>>}
           \cup {<<Entry(Join(<<W_AM, W_GOOD>>), c, lu), Entry(Join(<<W_AM, W_GOING>>), 1, lu)>> :
                    c \in {1, 10}}

\* the frequent words: none, those of SampleStore, or GOOD (also an n-gram
\* candidate) and YES (also a default word)
OfflineWordEntries(lu) ==
    {<<>>, SampleStore.frequent_words,
     <<Entry(W_GOOD, 5, lu), Entry(DEFAULT_WORDS[1], 1, lu)>>}

OfflineStores ==
    UNION {{[frequent_words |-> f, bigrams |-> b, trigrams |-> tr] :
               f \in OfflineWordEntries(lu),
               b \in OfflineBigrams(lu), tr \in OfflineTrigrams(lu)} :
           lu \in {T0 - 10, T0 - 4000}}

\* the texts the offline predictor is asked about: Texts, "I AM G", a single
\* space, the marker alone, and "AM AM"
OfflineTexts ==
    Texts \cup {<<"I", " ", "A", "M", " ", "G">>, <<" ">>, <<"|">>,
                <<"A", "M", " ", "A", "M">>}

\* how long before the call the scored entry was last used: now, 30 minutes, one
\* second short of an hour, an hour, a day, one second short of and one second past
\* seven days, 10 days
Ages == {0, 1800, 3599, 3600, 86400, 604799, 604801, 864000}

\* the candidates scored, and what was typed of them
ScoredCandidates == {W_GOOD, W_GOING}

TypedPrefixes == {<<>>, <<"G">>, <<"G", "O">>}

\* A cache of `size` answers to earlier queries (left contexts of 1, 2, ... letters
\* Z), the one at position `oldest` written 250 s before T0 and the others 100 s or
\* 50 s before T0; with oldest = 0 all were written 100 s before T0.
FilledCache(size, oldest) ==
    [i \in 1..size |->
        [key |-> get_cache_key([j \in 1..i |-> "Z"], <<>>),
         value |-> <<W_THE>>,
         timestamp |-> IF oldest = 0 THEN T0 - 100
                       ELSE IF i = oldest THEN T0 - 250
                       ELSE IF i % 2 = 0 THEN T0 - 100 ELSE T0 - 50]]

\* the texts committed by several threads at once: "good", "am good"
RaceTexts == {<<"g", "o", "o", "d">>, <<"a", "m", " ", "g", "o", "o", "d">>}

-----------------------------------------------------------------------------
(* Persistence: CONFIG_FILE and PREDICTIVE_FILE *)

\* What a file holds: nothing ("missing"), no bytes ("empty"), text json.load
\* rejects ("unparseable"), a JSON value that is no object ("empty_array", or a
\* non-empty "array", a "number", "null", a non-empty "string"), or a JSON object
\* ("object": value is the mapping, a record over the keys present).
File(kind) == [kind |-> kind, value |-> <<>>]

ObjectFile(value) == [kind |-> "object", value |-> value]

\* config.update(loaded_config)
Update(cfg, loaded) ==
    [k \in DOMAIN cfg \cup DOMAIN loaded |->
        IF k \in DOMAIN loaded THEN loaded[k] ELSE cfg[k]]

\* save_config: json.dump(config), an IOError being caught
save_config(cfg, file, write) ==
    IF write = "ok" THEN ObjectFile(cfg) ELSE file

\* load_config with `cfg` in memory: [raised, config, file]
load_config(cfg, file, write) ==
    IF file.kind = "missing"
    THEN [raised |-> FALSE, config |-> cfg, file |-> save_config(cfg, file, write)]
    ELSE IF file.kind \in {"empty", "unparseable"}
    THEN [raised |-> FALSE, config |-> DEFAULT_CONFIG, file |-> file]
    ELSE IF file.kind = "object"
    THEN [raised |-> FALSE, config |-> Update(DEFAULT_CONFIG, file.value), file |-> file]
    ELSE IF file.kind = "empty_array"
    THEN [raised |-> FALSE, config |-> DEFAULT_CONFIG, file |-> file]
    ELSE [raised |-> TRUE, config |-> DEFAULT_CONFIG, file |-> file]

\* {k.upper(): v for k, v in d.items()}
RECURSIVE UpperKeysFrom(_, _)
UpperKeysFrom(d, acc) ==
    IF d = <<>> THEN acc
    ELSE LET k == UpperStr(Head(d).key)
             e == [Head(d) EXCEPT !.key = k]
             acc2 == IF DictHas(acc, k)
                     THEN [i \in 1..Len(acc) |-> IF acc[i].key = k THEN e ELSE acc[i]]
                     ELSE Append(acc, e)
         IN  CHOOSE r \in {UpperKeysFrom(Tail(d), a) : a \in {acc2}} : TRUE

UpperKeys(d) == UpperKeysFrom(d, <<>>)

\* the three conversions of load_json, in order: [raised, predictive_data]
RECURSIVE UpperMappings(_, _)
UpperMappings(data, names) ==
    IF names = <<>> THEN [raised |-> FALSE, predictive_data |-> data]
    ELSE IF Head(names) \notin DOMAIN data
    THEN [raised |-> TRUE, predictive_data |-> data]
    ELSE CHOOSE r \in {UpperMappings(d, Tail(names)) :
                         d \in {[data EXCEPT ![Head(names)] = UpperKeys(@)]}} : TRUE

\* load_json: [raised, predictive_data]
load_json(file) ==
    IF file.kind \in {"missing", "empty", "unparseable"}
    THEN [raised |-> FALSE, predictive_data |-> EmptyStore]
    ELSE IF file.kind = "object"
    THEN UpperMappings(file.value, <<"frequent_words", "bigrams", "trigrams">>)
    ELSE [raised |-> TRUE, predictive_data |-> file.value]

\* save_json: json.dump(predictive_data)
save_json(pd) == ObjectFile(pd)

\* what CONFIG_FILE may hold when the module is imported: JSON objects with no option,
\* some options, all of them, and an option the engine does not know; and the rest
ConfigFiles ==
    {File(k) : k \in {"missing", "empty", "unparseable", "empty_array", "array",
                      "number", "null", "string"}}
      \cup {ObjectFile(v) : v \in {<<>>,
                                   [merge_strategy |-> "api_first"],
                                   [online_mode_enabled |-> FALSE, cache_ttl |-> 60],
                                   [merge_strategy |-> "offline_first", zzz |-> 1],
                                   DEFAULT_CONFIG}}

\* a store written with lower-case keys, two of which differ by case only
LowerStore ==
    [frequent_words |-> <<Entry(<<"t", "h", "e">>, 1, T0 - 4000),
                          Entry(<<"T", "h", "e">>, 2, T0 - 10)>>,
     bigrams |-> <<Entry(<<"a", "m", " ", "g", "o", "o", "d">>, 1, T0 - 10)>>,
     trigrams |-> <<>>]

\* what PREDICTIVE_FILE may hold then: JSON objects with none, one, two or all of
\* the three mappings; and the rest
StoreFiles ==
    {File(k) : k \in {"missing", "empty", "unparseable", "array", "number"}}
      \cup {ObjectFile(v) : v \in {<<>>,
                                   [frequent_words |-> <<>>],
                                   [frequent_words |-> <<>>, bigrams |-> <<>>],
                                   EmptyStore, SampleStore, LowerStore}}

\* the files behind a configuration and a store in memory
FilesOf(cfg, pd) == [config |-> ObjectFile(cfg), store |-> save_json(pd)]

-----------------------------------------------------------------------------
(* What the environment saw of earlier calls *)

WellFormed(body) ==
    body.kind = "json_dict"
      /\ \A i \in 1..Len(body.items) : body.items[i].kind \in {"text", "word", "empty"}

Never == 0 - 1

NoFetch(k) == [key |-> k, called_at |-> Never, requests |-> 0, answered_at |-> Never]

SeenFetch(h, k) ==
    IF \E i \in 1..Len(h.fetches) : h.fetches[i].key = k
    THEN h.fetches[CHOOSE i \in 1..Len(h.fetches) : h.fetches[i].key = k]
    ELSE NoFetch(k)

\* A call for key k at time t, which found the network available, made `requests`
\* requests to `endpoint`: answered_at is the last time the service gave a call for
\* k a well-formed answer.
NoteFetch(h, k, t, requests, endpoint) ==
    LET old == SeenFetch(h, k)
        new == [key |-> k, called_at |-> t, requests |-> requests,
                answered_at |-> IF requests > 0 /\ WellFormed(endpoint[requests])
                                THEN t ELSE old.answered_at]
    IN  [h EXCEPT !.fetches =
            IF \E i \in 1..Len(h.fetches) : h.fetches[i].key = k
            THEN [i \in 1..Len(h.fetches) |->
                    IF h.fetches[i].key = k THEN new ELSE h.fetches[i]]
            ELSE Append(h.fetches, new)]

\* the last two commits, the latest last
NoteCommit(h, call) ==
    [h EXCEPT !.commits = IF Len(h.commits) < 2 THEN Append(h.commits, call)
                          ELSE <<h.commits[2], call>>]

-----------------------------------------------------------------------------
(* The threads inside is_network_available *)

\* the threads that may call is_network_available at once
NumCallers == 2

Callers == 1..NumCallers

\* A thread outside the function.  Inside, pc is where it stands: "lock" (it has read
\* the clock and is at `with _network_check_lock`), "probing" (it holds the lock,
\* inside check_network_connectivity), "read" (past the with block, before the
\* return), "done" (returned or raised).  The other fields note what happened:
\* current_time, what _network_available held and whether a probe was in flight when
\* it arrived, whether it stood at the lock until a probe ended, whether it probed
\* (prev_probe: current_time of the probe before its own, attempts: connections
\* tried), and how it ended.
NoCall ==
    [pc |-> "idle", current_time |-> 0, cached |-> FALSE, in_flight |-> FALSE,
     waited |-> FALSE, probed |-> FALSE, prev_probe |-> Never, attempts |-> 0,
     first_ok |-> FALSE, raised |-> FALSE, value |-> FALSE]

\* no thread is inside is_network_available: the lock is free (lock is the thread
\* holding it, 0 for none); last_probe is current_time of the last probe started
NoCalls == [lock |-> 0, last_probe |-> Never, calls |-> [c \in Callers |-> NoCall]]

\* the times at which threads call: an interval, an interval and a second, and two
\* of those after the first
NetTimes ==
    {T0, T0 + NetworkCheckInterval, T0 + NetworkCheckInterval + 1,
     T0 + 2 * NetworkCheckInterval + 2}

-----------------------------------------------------------------------------
(* The threads inside get_online_predictions *)

\* The threads inside get_online_predictions.  pc is where a thread stands: "lock"
\* (at `with _api_cache_lock`, line 648), "test" (it holds the lock, at line 649),
\* "read" (line 650), "expire" (line 656), "request" (past the with block, lines
\* 658-696), "lock_write" (line 699), "insert" (line 700), "oldest" (line 702),
\* "evict" (line 704), "done" (returned or raised).  failed: a KeyError on an entry
\* that is no longer in the cache.
NumFetchers == 2

Fetchers == 1..NumFetchers

NoFetcher ==
    [pc |-> "idle", key |-> <<>>, current_time |-> 0, predictions |-> <<>>,
     oldest_key |-> <<>>, hit |-> FALSE, failed |-> FALSE, value |-> <<>>]

\* no thread is inside get_online_predictions; lock is the thread holding
\* _api_cache_lock, 0 for none
NoFetchers == [lock |-> 0, calls |-> [c \in Fetchers |-> NoFetcher]]

\* threading.Lock: a thread enters the with block only while no thread holds the lock
AcquirableAnyway(lock) == TRUE

Acquirable(lock) == lock = 0

-----------------------------------------------------------------------------
(* TriviaGame (src/games/trivia.py): the scanning keys, the screens and the
   callbacks scheduled with after().  highlight_button changes colours only and
   the speech queue is left out. *)

MaxPending == 3

\* None, for a time or for an after() identifier
NotSet == 0

\* a tk.Button of the game, known by its command
Button(command, arg) == [command |-> command, arg |-> arg]

back_button == Button("show_topic_selection", "Back")

answer_buttons == [i \in 1..4 |-> Button("check_answer", i - 1)]

\* what load_trivia_questions_excel returns: topics with their number of
\* questions; {} when the file cannot be read
TriviaData ==
    { <<>>,
      <<[topic |-> "SPORTS", questions |-> 1]>>,
      <<[topic |-> "SPORTS", questions |-> 2], [topic |-> "MUSIC", questions |-> 1]>> }

\* random.sample(all_topics, min(8, len(all_topics)))
Samples(trivia_data) ==
    LET all_topics == {trivia_data[i].topic : i \in 1..Len(trivia_data)}
        k == IF Len(trivia_data) < 8 THEN Len(trivia_data) ELSE 8
    IN  {s \in [1..k -> all_topics] : \A i, j \in 1..k : s[i] = s[j] => i = j}

\* self.after(ms, fn): a new identifier, never one that is still referred to
FreshId(g) ==
    CHOOSE n \in 1..(MaxPending + 2) :
        /\ n # g.space_long_hold_id
        /\ \A p \in g.pending : p.id # n
        /\ \A m \in 1..(n - 1) : m = g.space_long_hold_id \/ \E p \in g.pending : p.id = m

After(g, fn) == [g EXCEPT !.pending = @ \cup {[id |-> FreshId(g), fn |-> fn]}]

create_topic_buttons(g, topics) ==
    LET buttons_data == <<Button("on_exit", "Back")>>
                          \o [i \in 1..Len(topics) |-> Button("start_game", topics[i])]
    IN  [g EXCEPT !.displayed = buttons_data,
                  !.buttons = buttons_data,
                  !.current_button_index = 0]

\* clear_screen destroys the widgets shown
show_topic_selection(g, topics) ==
    create_topic_buttons([g EXCEPT !.current_screen = "topics", !.displayed = <<>>], topics)

\* TriviaGame.__init__: the topic screen is built first, the scanning state is
\* assigned afterwards
TriviaGame_init(trivia_data, topics) ==
    LET blank == [trivia_data |-> trivia_data, displayed |-> <<>>, buttons |-> <<>>,
                  current_button_index |-> 0, current_screen |-> "topics",
                  space_press_time |-> NotSet, space_long_hold_id |-> NotSet,
                  scanning_backward |-> FALSE, game_questions |-> 0,
                  current_question_index |-> 0, shuffled |-> FALSE,
                  answers_disabled |-> FALSE, pending |-> {}, destroyed |-> FALSE,
                  op |-> "__init__"]
        shown == show_topic_selection(blank, topics)
    IN  [shown EXCEPT !.space_press_time = NotSet,
                      !.space_long_hold_id = NotSet,
                      !.scanning_backward = FALSE,
                      !.buttons = <<>>,
                      !.current_button_index = 0,
                      !.current_screen = "topics"]

move_scan_forward(g) ==
    IF g.buttons # <<>>
    THEN [g EXCEPT !.current_button_index = (@ + 1) % Len(g.buttons)]
    ELSE g

move_scan_backward(g) ==
    IF g.buttons # <<>>
    THEN [g EXCEPT !.current_button_index = (@ - 1) % Len(g.buttons)]
    ELSE g

on_space_press(g, t) ==
    IF g.space_press_time = NotSet
    THEN LET timed == [After(g, "space_long_hold") EXCEPT !.space_press_time = t,
                                                          !.space_long_hold_id = FreshId(g)]
         IN  IF ~timed.scanning_backward THEN move_scan_forward(timed) ELSE timed
    ELSE g

\* after_cancel of an identifier whose callback has run changes nothing
on_space_release(g) ==
    LET cancelled ==
            IF g.space_long_hold_id # NotSet
            THEN [g EXCEPT !.pending = {p \in @ : p.id # g.space_long_hold_id},
                           !.space_long_hold_id = NotSet]
            ELSE g
    IN  [cancelled EXCEPT !.space_press_time = NotSet, !.scanning_backward = FALSE]

\* the callback schedules itself again and does not keep the identifier
space_long_hold(g) ==
    After(move_scan_backward([g EXCEPT !.scanning_backward = TRUE]), "space_long_hold")

end_game(g) ==
    [g EXCEPT !.answers_disabled = TRUE, !.buttons = <<back_button>>,
              !.current_button_index = 0]

\* on a screen other than the game screen question_label is destroyed and the
\* first statement that touches it raises
display_question(g) ==
    IF g.current_screen # "game" THEN g
    ELSE IF g.current_question_index >= g.game_questions THEN end_game(g)
    ELSE [g EXCEPT !.shuffled = TRUE, !.answers_disabled = FALSE,
                   !.current_button_index = 0]

next_question(g) ==
    LET counted == [g EXCEPT !.current_question_index = @ + 1]
    IN  IF counted.current_question_index < counted.game_questions
        THEN display_question(counted)
        ELSE IF counted.current_screen # "game" THEN counted ELSE end_game(counted)

\* start_game and show_game_screen
start_game(g, topic) ==
    LET all_questions == IF \E i \in 1..Len(g.trivia_data) : g.trivia_data[i].topic = topic
                         THEN (CHOOSE d \in Range(g.trivia_data) : d.topic = topic).questions
                         ELSE 0
        started == [g EXCEPT !.current_screen = "game",
                             !.game_questions = IF all_questions >= 10 THEN 10
                                                ELSE all_questions,
                             !.current_question_index = 0,
                             !.displayed = <<back_button>> \o answer_buttons,
                             !.answers_disabled = FALSE,
                             !.buttons = <<back_button>> \o answer_buttons,
                             !.current_button_index = 0]
    IN  After(started, "display_question")

\* check_answer reads shuffled_correct, which the first display_question sets
check_answer(g, selected_index) ==
    IF g.shuffled THEN After(g, "next_question") ELSE g

\* a tk.Button runs its command when it is invoked or clicked; a disabled button
\* does nothing
Invoke(g, b, topics) ==
    IF b.command = "on_exit" THEN [g EXCEPT !.destroyed = TRUE]
    ELSE IF b.command = "start_game" THEN start_game(g, b.arg)
    ELSE IF b.command = "show_topic_selection" THEN show_topic_selection(g, topics)
    ELSE IF g.answers_disabled THEN g
    ELSE check_answer(g, b.arg)

select_button(g, topics) ==
    IF g.buttons # <<>> /\ 0 <= g.current_button_index
                        /\ g.current_button_index < Len(g.buttons)
    THEN Invoke(g, g.buttons[g.current_button_index + 1], topics)
    ELSE g

NoGame == [op |-> "not_started"]

-----------------------------------------------------------------------------
(* The threads inside update_word_usage *)

\* the threads that may call update_word_usage at once
NumCommitters == 2

Committers == 1..NumCommitters

\* the entries a commit of `text` touches, in the order of the three loops
CommitKeys(text) ==
    LET words == CommitWords(text)
        Of(table, keys) == [i \in 1..Len(keys) |-> [table |-> table, key |-> keys[i]]]
    IN  Of("frequent_words", words) \o Of("bigrams", Ngrams(words, 2))
          \o Of("trigrams", Ngrams(words, 3))

\* A thread outside the function.  Inside, pc is where it stands: "test" (before
\* `if key in table` of entry number i), "store" (it has read the entry and is about
\* to store the new count; seen is the count read, 0 for no entry), "open" (the
\* loops are done, before open(PREDICTIVE_FILE, "w")), "dump" (the file is open
\* and truncated, json.dump runs; sizes are the lengths of the three mappings when
\* their iteration began), "close" (buffer holds the text written, not yet on
\* disk), "done" (returned or raised).
NoCommit ==
    [pc |-> "idle", i |-> 0, seen |-> 0, timestamp |-> 0, sizes |-> <<>>,
     buffer |-> File("empty"), raised |-> FALSE]

\* no thread is inside update_word_usage; start is the store and text the text
\* of the commits awaited (none)
NoCommits ==
    [start |-> EmptyStore, text |-> <<>>, calls |-> [c \in Committers |-> NoCommit]]

\* the lengths of the three mappings
SizesOf(pd) == <<Len(pd.frequent_words), Len(pd.bigrams), Len(pd.trigrams)>>

\* table[key] = {"count": count, "last_used": timestamp}, or the two stores into
\* the entry there
PutEntry(d, k, count, timestamp) ==
    IF DictHas(d, k)
    THEN [i \in 1..Len(d) |->
            IF d[i].key = k THEN Entry(k, count, timestamp) ELSE d[i]]
    ELSE Append(d, Entry(k, count, timestamp))

-----------------------------------------------------------------------------
(* The state machine *)

Idle == [op |-> "idle"]

MaxCountOf(d) == IF d = <<>> THEN 0
                 ELSE CHOOSE m \in {d[i].count : i \in 1..Len(d)} :
                          \A i \in 1..Len(d) : d[i].count <= m

\* the state after the module is imported (load_config, load_json)
Init ==
    /\ config = DEFAULT_CONFIG
    /\ predictive_data \in InitialStores
    /\ network_available = FALSE
    /\ last_network_check = 0
    /\ api_cache = <<>>
    /\ now = T0
    /\ ret = Idle
    /\ history = [fetches |-> <<>>, commits |-> <<>>]
    /\ files = FilesOf(config, predictive_data)
    /\ monitor = NoCalls
    /\ committers = NoCommits
    /\ fetchers = NoFetchers
    /\ trivia = NoGame

\* the caller takes the result (the import of the module has no result to take)
Return ==
    /\ ret.op \notin {"idle", "import", "load_config", "load_json"}
    /\ ret' = Idle
    /\ UNCHANGED <<config, predictive_data, network_available, last_network_check,
                   api_cache, now, history, files, monitor, committers, fetchers, trivia>>

\* time passes between two calls
Tick ==
    /\ ret.op = "idle"
    /\ \E t \in ClockTimes : t > now /\ now' = t
    /\ UNCHANGED <<config, predictive_data, network_available, last_network_check,
                   api_cache, ret, history, files, monitor, committers, fetchers, trivia>>

\* set_config(key, value)
SetConfig ==
    /\ ret.op = "idle"
    /\ \/ \E v \in BOOLEAN : config' = [config EXCEPT !.online_mode_enabled = v]
       \/ \E v \in Strategies : config' = [config EXCEPT !.merge_strategy = v]
    /\ config' # config
    /\ files' = [files EXCEPT !.config = save_config(config', @, "ok")]
    /\ UNCHANGED <<predictive_data, network_available, last_network_check, api_cache,
                   now, ret, history, monitor, committers, fetchers, trivia>>

\* get_predictive_suggestions(text, num_suggestions).  history keeps the direct
\* calls of get_online_predictions only, not the fetch made in here.
Suggest ==
    /\ ret.op = "idle"
    /\ \E text \in Texts, n \in 0..MaxSuggestions,
          e \in SuggestEndpoints, p \in Probes(last_network_check, now) :
        \E r \in {get_predictive_suggestions(config, predictive_data, api_cache,
                     network_available, last_network_check, text, n, now, p[1], p[2], e)} :
            /\ ret' = r
            /\ api_cache' = r.cache
            /\ network_available' = r.avail
            /\ last_network_check' = r.last
            /\ predictive_data' = Reading(predictive_data)
            /\ UNCHANGED <<config, now, history, files, monitor, committers,
                           fetchers, trivia>>

\* get_online_predictions(left_context, prefix, num_suggestions)
Fetch ==
    /\ ret.op = "idle"
    /\ \E q \in FetchQueries, e \in FetchEndpoints, p \in Probes(last_network_check, now) :
        \E k \in {get_cache_key(q.left_context, q.prefix)},
           r \in {get_online_predictions(config, api_cache, network_available,
                     last_network_check, q.left_context, q.prefix, now, p[1], p[2], e)} :
            /\ ret' = [op |-> "get_online_predictions", key |-> k, t |-> now,
                       ttl |-> config.cache_ttl, max_retries |-> config.api_max_retries,
                       endpoint |-> e, raised |-> r.raised, value |-> r.value,
                       requests |-> r.requests, reached |-> r.reached, hit |-> r.hit,
                       before |-> SeenFetch(history, k)]
            /\ history' = IF r.reached
                          THEN NoteFetch(history, k, now, r.requests, e)
                          ELSE history
            /\ api_cache' = r.cache
            /\ network_available' = r.avail
            /\ last_network_check' = r.last
            /\ UNCHANGED <<config, predictive_data, now, files, monitor, committers, fetchers, trivia>>

\* update_word_usage(text)
Commit ==
    /\ ret.op = "idle"
    /\ \E text \in CommitTexts :
        \E pd \in {update_word_usage(predictive_data, text, now)} :
        LET call == [op |-> "update_word_usage", text |-> text, t |-> now,
                     before |-> predictive_data.bigrams, after |-> pd.bigrams]
        IN  /\ MaxCountOf(pd.frequent_words) <= MaxCount
            /\ predictive_data' = pd
            /\ ret' = call
            /\ history' = NoteCommit(history, call)
            /\ files' = [files EXCEPT !.store = save_json(pd)]
            /\ UNCHANGED <<config, network_available, last_network_check, api_cache, now,
                           monitor, committers, fetchers, trivia>>

\* merge_predictions(offline_predictions, online_predictions, num_suggestions)
Merge ==
    /\ ret.op = "idle"
    /\ \E offline \in OfflineLists, online \in OnlineLists, n \in 0..MaxSuggestions :
        ret' = [op |-> "merge_predictions", strategy |-> config.merge_strategy,
                offline |-> offline, online |-> online, n |-> n,
                api_weight |-> config.api_weight, offline_weight |-> config.offline_weight,
                value |-> merge_predictions(config, offline, online, n)]
    /\ UNCHANGED <<config, predictive_data, network_available, last_network_check,
                   api_cache, now, history, files, monitor, committers, fetchers, trivia>>

\* time passes, also while threads are inside is_network_available
NetTick ==
    /\ \E t \in NetTimes : t > now /\ now' = t
    /\ UNCHANGED <<config, predictive_data, network_available, last_network_check,
                   api_cache, ret, history, files, monitor, committers, fetchers, trivia>>

\* is_network_available, line 549: a thread enters and reads the clock
NetCall ==
    /\ \E c \in Callers :
          /\ monitor.calls[c].pc = "idle"
          /\ monitor' = [monitor EXCEPT !.calls[c] =
                            [NoCall EXCEPT !.pc = "lock", !.current_time = now,
                                           !.cached = network_available,
                                           !.in_flight = (monitor.lock # 0)]]
    /\ UNCHANGED <<config, predictive_data, network_available, last_network_check,
                   api_cache, now, ret, history, files, committers, fetchers, trivia>>

\* lines 551-553: the thread takes the free lock and tests whether a check is due;
\* if none is, it leaves the with block
NetAcquire ==
    /\ monitor.lock = 0
    /\ \E c \in Callers :
          /\ monitor.calls[c].pc = "lock"
          /\ monitor' =
                IF monitor.calls[c].current_time - last_network_check > NetworkCheckInterval
                THEN [monitor EXCEPT !.lock = c,
                                     !.last_probe = monitor.calls[c].current_time,
                                     !.calls[c].pc = "probing",
                                     !.calls[c].probed = TRUE,
                                     !.calls[c].prev_probe = monitor.last_probe]
                ELSE [monitor EXCEPT !.calls[c].pc = "read"]
    /\ UNCHANGED <<config, predictive_data, network_available, last_network_check,
                   api_cache, now, ret, history, files, committers, fetchers, trivia>>

\* the threads standing at the lock when a probe ends have waited for it
AfterProbe(calls, c, mine) ==
    [d \in Callers |->
        IF d = c THEN mine
        ELSE IF calls[d].pc = "lock" THEN [calls[d] EXCEPT !.waited = TRUE]
        ELSE calls[d]]

\* lines 554-555: check_network_connectivity ends; its value and current_time are
\* stored and the lock is released, or its exception leaves the with block
NetProbe ==
    /\ \E c \in Callers, p1 \in ProbeOutcomes, p2 \in ProbeOutcomes :
          /\ monitor.calls[c].pc = "probing"
          /\ p1 = "ok" => p2 = "ok"
          /\ \E r \in {check_network_connectivity(p1, p2)} :
              LET mine == [monitor.calls[c] EXCEPT
                              !.pc = IF r.raised THEN "done" ELSE "read",
                              !.raised = r.raised,
                              !.attempts = r.probes,
                              !.first_ok = (p1 = "ok")]
              IN  /\ monitor' = [monitor EXCEPT !.lock = 0,
                                    !.calls = AfterProbe(monitor.calls, c, mine)]
                  /\ network_available' = IF r.raised THEN network_available ELSE r.value
                  /\ last_network_check' = IF r.raised THEN last_network_check
                                           ELSE monitor.calls[c].current_time
    /\ UNCHANGED <<config, predictive_data, api_cache, now, ret, history, files, committers,
                   fetchers, trivia>>

\* line 559: return _network_available, read outside the lock
NetRead ==
    /\ \E c \in Callers :
          /\ monitor.calls[c].pc = "read"
          /\ monitor' = [monitor EXCEPT !.calls[c].pc = "done",
                                        !.calls[c].value = network_available]
    /\ UNCHANGED <<config, predictive_data, network_available, last_network_check,
                   api_cache, now, ret, history, files, committers, fetchers, trivia>>

\* the caller takes the result
NetReturn ==
    /\ \E c \in Callers :
          /\ monitor.calls[c].pc = "done"
          /\ monitor' = [monitor EXCEPT !.calls[c] = NoCall]
    /\ UNCHANGED <<config, predictive_data, network_available, last_network_check,
                   api_cache, now, ret, history, files, committers, fetchers, trivia>>

\* The network monitor under concurrent callers.
NextNet == NetTick \/ NetCall \/ NetAcquire \/ NetProbe \/ NetRead \/ NetReturn

SpecNet == Init /\ [][NextNet]_vars

\* The prediction service: suggestions under every configuration.
Next == SetConfig \/ Suggest \/ Return

Spec == Init /\ [][Next]_vars

\* The remote client over time, under each retry budget a configuration file sets.
InitFetch ==
    /\ \E v \in {0, MaxRetries} : config = [DEFAULT_CONFIG EXCEPT !.api_max_retries = v]
    /\ predictive_data = EmptyStore
    /\ network_available = FALSE
    /\ last_network_check = 0
    /\ api_cache = <<>>
    /\ now = T0
    /\ ret = Idle
    /\ history = [fetches |-> <<>>, commits |-> <<>>]
    /\ files = FilesOf(config, predictive_data)
    /\ monitor = NoCalls
    /\ committers = NoCommits
    /\ fetchers = NoFetchers
    /\ trivia = NoGame

NextFetch == Tick \/ Fetch \/ Return

SpecFetch == InitFetch /\ [][NextFetch]_vars

\* The remote client with its cache one entry short of the limit, or at the limit.
InitCache ==
    /\ config = DEFAULT_CONFIG
    /\ predictive_data = EmptyStore
    /\ network_available = FALSE
    /\ last_network_check = 0
    /\ \E size \in {CacheLimit - 1, CacheLimit} :
          \E oldest \in {0, CacheLimit \div 2, size} :
              api_cache = FilledCache(size, oldest)
    /\ now = T0
    /\ ret = Idle
    /\ history = [fetches |-> <<>>, commits |-> <<>>]
    /\ files = FilesOf(config, predictive_data)
    /\ monitor = NoCalls
    /\ committers = NoCommits
    /\ fetchers = NoFetchers
    /\ trivia = NoGame

\* get_online_predictions(left_context, prefix, num_suggestions) on the filled cache.
\* history keeps the calls made by Fetch only.
FetchMore ==
    /\ ret.op = "idle"
    /\ \E q \in CacheQueries, e \in CacheEndpoints, p \in Probes(last_network_check, now) :
        \E k \in {get_cache_key(q.left_context, q.prefix)},
           r \in {get_online_predictions(config, api_cache, network_available,
                     last_network_check, q.left_context, q.prefix, now, p[1], p[2], e)} :
            /\ ret' = [op |-> "get_online_predictions", key |-> k, t |-> now,
                       raised |-> r.raised, value |-> r.value, hit |-> r.hit]
            /\ api_cache' = r.cache
            /\ network_available' = r.avail
            /\ last_network_check' = r.last
            /\ UNCHANGED <<config, predictive_data, now, history, files, monitor, committers,
                           fetchers, trivia>>

NextCache == Tick \/ FetchMore \/ Return

SpecCache == InitCache /\ [][NextCache]_vars

\* Fusion: merge_predictions on every pair of lists, under every strategy and under
\* the default weights (0.7, 0.3) and equal ones (0.5, 0.5).
InitMerge ==
    /\ \E st \in ConfiguredStrategies, w \in {<<7, 3>>, <<5, 5>>} :
          config = [DEFAULT_CONFIG EXCEPT !.merge_strategy = st, !.api_weight = w[1],
                                          !.offline_weight = w[2]]
    /\ predictive_data = EmptyStore
    /\ network_available = FALSE
    /\ last_network_check = 0
    /\ api_cache = <<>>
    /\ now = T0
    /\ ret = Idle
    /\ history = [fetches |-> <<>>, commits |-> <<>>]
    /\ files = FilesOf(config, predictive_data)
    /\ monitor = NoCalls
    /\ committers = NoCommits
    /\ fetchers = NoFetchers
    /\ trivia = NoGame

NextMerge == Merge \/ Return

SpecMerge == InitMerge /\ [][NextMerge]_vars

\* The learning store: commits over time.
NextLearn == Tick \/ Commit \/ Return

SpecLearn == Init /\ [][NextLearn]_vars

\* The offline predictor alone, on stores of trigrams and bigrams.
InitOffline ==
    /\ config = DEFAULT_CONFIG
    /\ predictive_data \in OfflineStores
    /\ network_available = FALSE
    /\ last_network_check = 0
    /\ api_cache = <<>>
    /\ now = T0
    /\ ret = Idle
    /\ history = [fetches |-> <<>>, commits |-> <<>>]
    /\ files = FilesOf(config, predictive_data)
    /\ monitor = NoCalls
    /\ committers = NoCommits
    /\ fetchers = NoFetchers
    /\ trivia = NoGame

\* get_offline_predictions_with_scores(text, num_suggestions)
Predict ==
    /\ ret.op = "idle"
    /\ \E text \in OfflineTexts, n \in 1..MaxSuggestions :
        \E r \in {get_offline_predictions_with_scores(predictive_data, text, n, now)} :
            ret' = [op |-> "get_offline_predictions_with_scores", text |-> text, n |-> n,
                    value |-> r]
    /\ predictive_data' = Reading(predictive_data)
    /\ UNCHANGED <<config, network_available, last_network_check,
                   api_cache, now, history, files, monitor, committers, fetchers, trivia>>

\* get_offline_predictions(text, num_suggestions)
PredictWords ==
    /\ ret.op = "idle"
    /\ \E text \in OfflineTexts, n \in 0..MaxSuggestions :
        \E r \in {get_offline_predictions(predictive_data, text, n, now)} :
            ret' = [op |-> "get_offline_predictions", text |-> text, n |-> n, value |-> r]
    /\ predictive_data' = Reading(predictive_data)
    /\ UNCHANGED <<config, network_available, last_network_check,
                   api_cache, now, history, files, monitor, committers, fetchers, trivia>>

NextOffline == Tick \/ Predict \/ PredictWords \/ Return

SpecOffline == InitOffline /\ [][NextOffline]_vars

\* compute_ngram_score(ngram_data, ngram_type, candidate, current_word)
ScoreNgram ==
    /\ ret.op = "idle"
    /\ \E count \in 1..MaxCount, age \in Ages, ngram_type \in {"bigrams", "trigrams"},
          candidate \in ScoredCandidates, current_word \in TypedPrefixes :
        ret' = [op |-> "compute_ngram_score", count |-> count, age |-> age, t |-> now,
                ngram_type |-> ngram_type, candidate |-> candidate,
                current_word |-> current_word,
                value |-> compute_ngram_score(Entry(<<>>, count, now - age), ngram_type,
                                              candidate, current_word, now)]
    /\ UNCHANGED <<config, predictive_data, network_available, last_network_check,
                   api_cache, now, history, files, monitor, committers, fetchers, trivia>>

\* compute_freq_score(freq_data)
ScoreFreq ==
    /\ ret.op = "idle"
    /\ \E count \in 1..MaxCount, age \in Ages :
        ret' = [op |-> "compute_freq_score", count |-> count, age |-> age, t |-> now,
                value |-> compute_freq_score(Entry(<<>>, count, now - age), now)]
    /\ UNCHANGED <<config, predictive_data, network_available, last_network_check,
                   api_cache, now, history, files, monitor, committers, fetchers, trivia>>

\* The two scorers, on entries of every count and age.
NextScore == ScoreNgram \/ ScoreFreq \/ Return

SpecScore == Init /\ [][NextScore]_vars

\* Suggestions and commits in any order, one call at a time, after the load.
\* The texts typed between commits: "TH" and "I AM " with a trailing space.
GrowTexts == { <<"T", "H">>, <<"I", " ", "A", "M", " ">> }

GrowEndpoints == {Endpoint(0, "url_error", BodyThree), Endpoint(MaxRetries + 1, "non_200", BodyEmpty)}

\* get_predictive_suggestions(text, num_suggestions), between commits
SuggestBetweenCommits ==
    /\ ret.op = "idle"
    /\ \E text \in GrowTexts, e \in GrowEndpoints, p \in Probes(last_network_check, now) :
        \E r \in {get_predictive_suggestions(config, predictive_data, api_cache,
                     network_available, last_network_check, text, MaxSuggestions, now,
                     p[1], p[2], e)} :
            /\ ret' = r
            /\ api_cache' = r.cache
            /\ network_available' = r.avail
            /\ last_network_check' = r.last
            /\ predictive_data' = Reading(predictive_data)
            /\ UNCHANGED <<config, now, history, files, monitor, committers,
                           fetchers, trivia>>

NextGrow == SuggestBetweenCommits \/ Commit \/ Return

SpecGrow == Init /\ [][NextGrow]_vars

\* The option network_check_interval (DEFAULT_CONFIG, line 30) as config.json or
\* set_config may give it: the default 30 s, a shorter and a longer interval.
ConfiguredIntervals == {5, 30, 60}

ConfigWithInterval(v) == Update(DEFAULT_CONFIG, [network_check_interval |-> v])

\* the state after the import, config.json giving network_check_interval
InitInterval ==
    /\ \E v \in ConfiguredIntervals : config = ConfigWithInterval(v)
    /\ predictive_data = EmptyStore
    /\ network_available = FALSE
    /\ last_network_check = 0
    /\ api_cache = <<>>
    /\ now = T0
    /\ ret = Idle
    /\ history = [fetches |-> <<>>, commits |-> <<>>]
    /\ files = FilesOf(config, predictive_data)
    /\ monitor = NoCalls
    /\ committers = NoCommits
    /\ fetchers = NoFetchers
    /\ trivia = NoGame

\* set_config("network_check_interval", v)
SetInterval ==
    /\ ret.op = "idle"
    /\ \E v \in ConfiguredIntervals :
          /\ v # config.network_check_interval
          /\ config' = [config EXCEPT !.network_check_interval = v]
    /\ files' = [files EXCEPT !.config = save_config(config', @, "ok")]
    /\ UNCHANGED <<predictive_data, network_available, last_network_check, api_cache,
                   now, ret, history, monitor, committers, fetchers, trivia>>

\* is_network_available(), one caller at a time
CheckNetwork ==
    /\ ret.op = "idle"
    /\ \E p \in Probes(last_network_check, now) :
        \E r \in {is_network_available(network_available, last_network_check, now,
                                        p[1], p[2])} :
            /\ ret' = [op |-> "is_network_available", t |-> now,
                       last |-> last_network_check,
                       interval |-> config.network_check_interval,
                       probes |-> r.probes, raised |-> r.raised, value |-> r.value]
            /\ network_available' = r.avail
            /\ last_network_check' = r.last
    /\ UNCHANGED <<config, predictive_data, api_cache, now, history, files, monitor,
                   committers, fetchers, trivia>>

NextInterval == Tick \/ SetInterval \/ CheckNetwork \/ Return

SpecInterval == InitInterval /\ [][NextInterval]_vars

\* The same query spelled three ways: "I AM" with "TH", "i am" with "th", and
\* " I AM " (a leading and a trailing space) with "TH".
KeyQueries ==
    { [left_context |-> <<"I", " ", "A", "M">>, prefix |-> <<"T", "H">>],
      [left_context |-> <<"i", " ", "a", "m">>, prefix |-> <<"t", "h">>],
      [left_context |-> <<" ", "I", " ", "A", "M", " ">>, prefix |-> <<"T", "H">>] }

\* the query without its letter case and its leading and trailing whitespace
Normalized(q) == UpperStr(Strip(q.left_context)) \o <<BAR>> \o UpperStr(Strip(q.prefix))

\* get_online_predictions(left_context, prefix, num_suggestions) against a service
\* that answers at once; history keeps the calls by the normalized query
FetchSpelled ==
    /\ ret.op = "idle"
    /\ \E q \in KeyQueries, p \in Probes(last_network_check, now) :
        \E e \in {Endpoint(0, "url_error", BodyTheThere)}, n \in {Normalized(q)} :
        \E r \in {get_online_predictions(config, api_cache, network_available,
                     last_network_check, q.left_context, q.prefix, now, p[1], p[2], e)} :
            /\ ret' = [op |-> "get_online_predictions", query |-> q,
                       key |-> get_cache_key(q.left_context, q.prefix), t |-> now,
                       ttl |-> config.cache_ttl, raised |-> r.raised, value |-> r.value,
                       requests |-> r.requests, reached |-> r.reached, hit |-> r.hit,
                       before |-> SeenFetch(history, n)]
            /\ history' = IF r.reached THEN NoteFetch(history, n, now, r.requests, e)
                          ELSE history
            /\ api_cache' = r.cache
            /\ network_available' = r.avail
            /\ last_network_check' = r.last
            /\ UNCHANGED <<config, predictive_data, now, files, monitor, committers, fetchers, trivia>>

NextKey == Tick \/ FetchSpelled \/ Return

SpecKey == InitFetch /\ [][NextKey]_vars

\* the texts typed after one or two words: "I ", "I G", "AM ", "AM G", "I AM "
ContextTexts ==
    { <<"I", " ">>, <<"I", " ", "G">>, <<"A", "M", " ">>, <<"A", "M", " ", "G">>,
      <<"I", " ", "A", "M", " ">> }

\* get_offline_predictions_with_scores(text, num_suggestions) after a short context
PredictAfterContext ==
    /\ ret.op = "idle"
    /\ \E text \in ContextTexts, n \in 1..MaxSuggestions :
        \E r \in {get_offline_predictions_with_scores(predictive_data, text, n, now)} :
            ret' = [op |-> "get_offline_predictions_with_scores", text |-> text, n |-> n,
                    value |-> r]
    /\ predictive_data' = Reading(predictive_data)
    /\ UNCHANGED <<config, network_available, last_network_check,
                   api_cache, now, history, files, monitor, committers, fetchers, trivia>>

NextContext == PredictAfterContext \/ Return

SpecContext == InitOffline /\ [][NextContext]_vars

(* TriviaGame: start-up, the keys and the after() callbacks *)

InitTrivia ==
    /\ config = DEFAULT_CONFIG
    /\ predictive_data = EmptyStore
    /\ network_available = FALSE
    /\ last_network_check = 0
    /\ api_cache = <<>>
    /\ now = T0
    /\ ret = Idle
    /\ history = [fetches |-> <<>>, commits |-> <<>>]
    /\ files = FilesOf(config, predictive_data)
    /\ monitor = NoCalls
    /\ committers = NoCommits
    /\ fetchers = NoFetchers
    /\ \E data \in TriviaData : \E topics \in Samples(data) :
           trivia = TriviaGame_init(data, topics)

TriviaFrame ==
    UNCHANGED <<config, predictive_data, network_available, last_network_check,
                api_cache, now, ret, history, files, monitor, committers, fetchers>>

Schedulable(g) == Cardinality(g.pending) < MaxPending

\* <KeyPress-space>, also sent again and again while the key is held
SpacePress ==
    /\ ~trivia.destroyed
    /\ Schedulable(trivia)
    /\ trivia' = [on_space_press(trivia, now) EXCEPT !.op = "on_space_press"]
    /\ TriviaFrame

\* <KeyRelease-space>
SpaceRelease ==
    /\ ~trivia.destroyed
    /\ trivia.space_press_time # NotSet
    /\ trivia' = [on_space_release(trivia) EXCEPT !.op = "on_space_release"]
    /\ TriviaFrame

\* a short press of Return: on_return_press, then on_return_release, which
\* cancels the long-hold callback and calls select_button
ReturnKey ==
    /\ ~trivia.destroyed
    /\ Schedulable(trivia)
    /\ \E topics \in Samples(trivia.trivia_data) :
           trivia' = [select_button(trivia, topics) EXCEPT !.op = "select_button"]
    /\ TriviaFrame

\* a click on one of the buttons shown
Click ==
    /\ ~trivia.destroyed
    /\ Schedulable(trivia)
    /\ \E i \in 1..Len(trivia.displayed), topics \in Samples(trivia.trivia_data) :
           trivia' = [Invoke(trivia, trivia.displayed[i], topics) EXCEPT !.op = "click"]
    /\ TriviaFrame

\* the event loop runs a space_long_hold callback that is due
SpaceLongHoldDue ==
    /\ ~trivia.destroyed
    /\ \E p \in trivia.pending :
        /\ p.fn = "space_long_hold"
        /\ trivia' = [space_long_hold([trivia EXCEPT !.pending = @ \ {p}])
                         EXCEPT !.op = "space_long_hold"]
    /\ TriviaFrame

DisplayQuestionDue ==
    /\ ~trivia.destroyed
    /\ \E p \in trivia.pending :
        /\ p.fn = "display_question"
        /\ trivia' = [display_question([trivia EXCEPT !.pending = @ \ {p}])
                         EXCEPT !.op = "display_question"]
    /\ TriviaFrame

NextQuestionDue ==
    /\ ~trivia.destroyed
    /\ \E p \in trivia.pending :
        /\ p.fn = "next_question"
        /\ trivia' = [next_question([trivia EXCEPT !.pending = @ \ {p}])
                         EXCEPT !.op = "next_question"]
    /\ TriviaFrame

NextTrivia ==
    \/ SpacePress \/ SpaceRelease \/ ReturnKey \/ Click
    \/ SpaceLongHoldDue \/ DisplayQuestionDue \/ NextQuestionDue

SpecTrivia == InitTrivia /\ [][NextTrivia]_vars

\* The three prediction functions in every mode: online mode switched on and off,
\* each merge strategy, the network and the service answering or failing.
NextRead == SetConfig \/ SuggestBetweenCommits \/ Predict \/ PredictWords \/ Return

SpecRead == Init /\ [][NextRead]_vars

\* Threads commit the same text at once, each thread once.
InitRace ==
    /\ config = DEFAULT_CONFIG
    /\ predictive_data \in InitialStores
    /\ network_available = FALSE
    /\ last_network_check = 0
    /\ api_cache = <<>>
    /\ now = T0
    /\ ret = Idle
    /\ history = [fetches |-> <<>>, commits |-> <<>>]
    /\ files = FilesOf(config, predictive_data)
    /\ monitor = NoCalls
    /\ \E text \in RaceTexts :
          committers = [NoCommits EXCEPT !.start = predictive_data, !.text = text]
    /\ fetchers = NoFetchers
    /\ trivia = NoGame

\* update_word_usage, lines 359-363: a thread enters and reads the clock
RaceCall ==
    /\ \E c \in Committers :
          /\ committers.calls[c].pc = "idle"
          /\ committers' = [committers EXCEPT !.calls[c] =
                               [NoCommit EXCEPT !.pc = "test", !.i = 1, !.timestamp = now]]
    /\ UNCHANGED <<config, predictive_data, network_available, last_network_check,
                   api_cache, now, ret, history, files, monitor, fetchers, trivia>>

\* `if key in table` and the read of its count (lines 367-368, 379-380, 386-387);
\* after the last entry the loops are left
RaceTest ==
    /\ \E c \in Committers :
          LET call == committers.calls[c]
              keys == CommitKeys(committers.text)
          IN  /\ call.pc = "test"
              /\ committers' =
                    IF call.i > Len(keys)
                    THEN [committers EXCEPT !.calls[c].pc = "open"]
                    ELSE [committers EXCEPT
                            !.calls[c].pc = "store",
                            !.calls[c].seen =
                                IF DictHas(predictive_data[keys[call.i].table], keys[call.i].key)
                                THEN DictGet(predictive_data[keys[call.i].table],
                                             keys[call.i].key).count
                                ELSE 0]
    /\ UNCHANGED <<config, predictive_data, network_available, last_network_check,
                   api_cache, now, ret, history, files, monitor, fetchers, trivia>>

\* the store of the count read plus one and of last_used, or of a new entry
\* (lines 368-374, 380-383, 387-390)
RaceStore ==
    /\ \E c \in Committers :
          LET call == committers.calls[c]
              k == CommitKeys(committers.text)[call.i]
          IN  /\ call.pc = "store"
              /\ predictive_data' =
                    [predictive_data EXCEPT
                        ![k.table] = PutEntry(@, k.key, call.seen + 1, call.timestamp)]
              /\ committers' = [committers EXCEPT !.calls[c].pc = "test",
                                                  !.calls[c].i = call.i + 1]
    /\ UNCHANGED <<config, network_available, last_network_check, api_cache, now, ret,
                   history, files, monitor, fetchers, trivia>>

\* save_json, line 119: open(PREDICTIVE_FILE, "w") truncates the file
RaceOpen ==
    /\ \E c \in Committers :
          /\ committers.calls[c].pc = "open"
          /\ files' = [files EXCEPT !.store = File("empty")]
          /\ committers' = [committers EXCEPT !.calls[c].pc = "dump",
                                              !.calls[c].sizes = SizesOf(predictive_data)]
    /\ UNCHANGED <<config, predictive_data, network_available, last_network_check,
                   api_cache, now, ret, history, monitor, fetchers, trivia>>

\* line 120: json.dump has gone through predictive_data; if a mapping grew meanwhile
\* its iteration raises RuntimeError, and the text written so far is cut short
RaceDump ==
    /\ \E c \in Committers :
          /\ committers.calls[c].pc = "dump"
          /\ committers' =
                IF SizesOf(predictive_data) = committers.calls[c].sizes
                THEN [committers EXCEPT !.calls[c].pc = "close",
                                        !.calls[c].buffer = save_json(predictive_data)]
                ELSE [committers EXCEPT !.calls[c].pc = "close",
                                        !.calls[c].buffer = File("unparseable"),
                                        !.calls[c].raised = TRUE]
    /\ UNCHANGED <<config, predictive_data, network_available, last_network_check,
                   api_cache, now, ret, history, files, monitor, fetchers, trivia>>

\* the with block is left: the text written reaches the file, and the call ends
RaceClose ==
    /\ \E c \in Committers :
          /\ committers.calls[c].pc = "close"
          /\ files' = [files EXCEPT !.store = committers.calls[c].buffer]
          /\ committers' = [committers EXCEPT !.calls[c].pc = "done"]
    /\ UNCHANGED <<config, predictive_data, network_available, last_network_check,
                   api_cache, now, ret, history, monitor, fetchers, trivia>>

NextRace == RaceCall \/ RaceTest \/ RaceStore \/ RaceOpen \/ RaceDump \/ RaceClose

SpecRace == InitRace /\ [][NextRace]_vars

\* Concurrent fetches on a cache that is full or one short of full.  The queries:
\* "Z" (the key of the first entry of the filled cache) and "TH" (a new key).
RacingQueries ==
    { [left_context |-> <<"Z">>, prefix |-> <<>>],
      [left_context |-> <<>>, prefix |-> <<"T", "H">>] }

InitFetchers ==
    /\ config = DEFAULT_CONFIG
    /\ predictive_data = EmptyStore
    /\ network_available = TRUE
    /\ last_network_check = T0
    /\ \E size \in {CacheLimit - 1, CacheLimit} :
          api_cache = FilledCache(size, CacheLimit \div 2)
    /\ now = T0
    /\ ret = Idle
    /\ history = [fetches |-> <<>>, commits |-> <<>>]
    /\ files = FilesOf(config, predictive_data)
    /\ monitor = NoCalls
    /\ committers = NoCommits
    /\ fetchers = NoFetchers
    /\ trivia = NoGame

\* time passes, also while threads are inside get_online_predictions
FetcherTick ==
    /\ \E t \in {T0 + 300} : t > now /\ now' = t
    /\ UNCHANGED <<config, predictive_data, network_available, last_network_check,
                   api_cache, ret, history, files, monitor, committers, fetchers, trivia>>

\* lines 634-646: the network check (the network answers), the key, the clock
FetcherCall ==
    /\ \E c \in Fetchers, q \in RacingQueries :
        \E net \in {is_network_available(network_available, last_network_check, now,
                                          "ok", "ok")} :
          /\ fetchers.calls[c].pc = "idle"
          /\ network_available' = net.avail
          /\ last_network_check' = net.last
          /\ fetchers' = [fetchers EXCEPT !.calls[c] =
                             [NoFetcher EXCEPT !.pc = "lock", !.current_time = now,
                                 !.key = get_cache_key(q.left_context, q.prefix)]]
    /\ UNCHANGED <<config, predictive_data, api_cache, now, ret, history, files, monitor,
                   committers, trivia>>

\* line 648: with _api_cache_lock
FetcherLock ==
    /\ Acquirable(fetchers.lock)
    /\ \E c \in Fetchers :
          /\ fetchers.calls[c].pc = "lock"
          /\ fetchers' = [fetchers EXCEPT !.lock = c, !.calls[c].pc = "test"]
    /\ UNCHANGED <<config, predictive_data, network_available, last_network_check,
                   api_cache, now, ret, history, files, monitor, committers, trivia>>

\* line 649: if cache_key in _api_cache; if not, the with block is left
FetcherTest ==
    /\ \E c \in Fetchers :
          /\ fetchers.calls[c].pc = "test"
          /\ fetchers' =
                IF CacheHas(api_cache, fetchers.calls[c].key)
                THEN [fetchers EXCEPT !.calls[c].pc = "read"]
                ELSE [fetchers EXCEPT !.lock = 0, !.calls[c].pc = "request"]
    /\ UNCHANGED <<config, predictive_data, network_available, last_network_check,
                   api_cache, now, ret, history, files, monitor, committers, trivia>>

\* lines 650-653: the entry is read (KeyError if it is gone) and returned if fresh
FetcherRead ==
    /\ \E c \in Fetchers :
          LET call == fetchers.calls[c]
          IN  /\ call.pc = "read"
              /\ fetchers' =
                    IF ~CacheHas(api_cache, call.key)
                    THEN [fetchers EXCEPT !.lock = 0, !.calls[c].pc = "done",
                                          !.calls[c].failed = TRUE]
                    ELSE IF CacheFresh(CacheGet(api_cache, call.key).timestamp,
                                       call.current_time, config.cache_ttl)
                    THEN [fetchers EXCEPT !.lock = 0, !.calls[c].pc = "done",
                                          !.calls[c].hit = TRUE,
                                          !.calls[c].value = CacheGet(api_cache, call.key).value]
                    ELSE [fetchers EXCEPT !.calls[c].pc = "expire"]
    /\ UNCHANGED <<config, predictive_data, network_available, last_network_check,
                   api_cache, now, ret, history, files, monitor, committers, trivia>>

\* line 656: del _api_cache[cache_key] (KeyError if it is gone); the with block is left
FetcherExpire ==
    /\ \E c \in Fetchers :
          LET call == fetchers.calls[c]
          IN  /\ call.pc = "expire"
              /\ IF CacheHas(api_cache, call.key)
                 THEN /\ api_cache' = CacheDel(api_cache, call.key)
                      /\ fetchers' = [fetchers EXCEPT !.lock = 0, !.calls[c].pc = "request"]
                 ELSE /\ api_cache' = api_cache
                      /\ fetchers' = [fetchers EXCEPT !.lock = 0, !.calls[c].pc = "done",
                                                      !.calls[c].failed = TRUE]
    /\ UNCHANGED <<config, predictive_data, network_available, last_network_check,
                   now, ret, history, files, monitor, committers, trivia>>

\* lines 658-696: the requests and the parsing, outside the lock
FetcherRequest ==
    /\ \E c \in Fetchers, e \in CacheEndpoints :
        \E loop \in {RetryLoop(e, config.api_max_retries, 0)} :
          /\ fetchers.calls[c].pc = "request"
          /\ fetchers' =
                IF loop.api_data = None
                THEN [fetchers EXCEPT !.calls[c].pc = "done"]
                ELSE [fetchers EXCEPT !.calls[c].pc = "lock_write",
                         !.calls[c].predictions =
                             ParseResults(loop.api_data.items, <<>>).predictions]
    /\ UNCHANGED <<config, predictive_data, network_available, last_network_check,
                   api_cache, now, ret, history, files, monitor, committers, trivia>>

\* line 699: with _api_cache_lock
FetcherLockWrite ==
    /\ Acquirable(fetchers.lock)
    /\ \E c \in Fetchers :
          /\ fetchers.calls[c].pc = "lock_write"
          /\ fetchers' = [fetchers EXCEPT !.lock = c, !.calls[c].pc = "insert"]
    /\ UNCHANGED <<config, predictive_data, network_available, last_network_check,
                   api_cache, now, ret, history, files, monitor, committers, trivia>>

\* line 700: _api_cache[cache_key] = (predictions, current_time)
FetcherInsert ==
    /\ \E c \in Fetchers :
          LET call == fetchers.calls[c]
              e == [key |-> call.key, value |-> call.predictions,
                    timestamp |-> call.current_time]
          IN  /\ call.pc = "insert"
              /\ api_cache' =
                    IF CacheHas(api_cache, call.key)
                    THEN [i \in 1..Len(api_cache) |->
                             IF api_cache[i].key = call.key THEN e ELSE api_cache[i]]
                    ELSE Append(api_cache, e)
              /\ fetchers' = [fetchers EXCEPT !.calls[c].pc = "oldest"]
    /\ UNCHANGED <<config, predictive_data, network_available, last_network_check,
                   now, ret, history, files, monitor, committers, trivia>>

\* lines 702-703: if the cache is over the limit the oldest key is looked up;
\* if not, the with block is left and the predictions are returned
FetcherOldest ==
    /\ \E c \in Fetchers :
          /\ fetchers.calls[c].pc = "oldest"
          /\ fetchers' =
                IF Len(api_cache) > CacheLimit
                THEN [fetchers EXCEPT !.calls[c].pc = "evict",
                                      !.calls[c].oldest_key = OldestKey(api_cache)]
                ELSE [fetchers EXCEPT !.lock = 0, !.calls[c].pc = "done",
                                      !.calls[c].value = fetchers.calls[c].predictions]
    /\ UNCHANGED <<config, predictive_data, network_available, last_network_check,
                   api_cache, now, ret, history, files, monitor, committers, trivia>>

\* line 704: del _api_cache[oldest_key] (KeyError if it is gone); the with block is
\* left and the predictions are returned
FetcherEvict ==
    /\ \E c \in Fetchers :
          LET call == fetchers.calls[c]
          IN  /\ call.pc = "evict"
              /\ IF CacheHas(api_cache, call.oldest_key)
                 THEN /\ api_cache' = CacheDel(api_cache, call.oldest_key)
                      /\ fetchers' = [fetchers EXCEPT !.lock = 0, !.calls[c].pc = "done",
                                          !.calls[c].value = call.predictions]
                 ELSE /\ api_cache' = api_cache
                      /\ fetchers' = [fetchers EXCEPT !.lock = 0, !.calls[c].pc = "done",
                                                      !.calls[c].failed = TRUE]
    /\ UNCHANGED <<config, predictive_data, network_available, last_network_check,
                   now, ret, history, files, monitor, committers, trivia>>

NextFetchers ==
    \/ FetcherTick \/ FetcherCall \/ FetcherLock \/ FetcherTest \/ FetcherRead
    \/ FetcherExpire \/ FetcherRequest \/ FetcherLockWrite \/ FetcherInsert
    \/ FetcherOldest \/ FetcherEvict

SpecFetchers == InitFetchers /\ [][NextFetchers]_vars

\* The import of the module, lines 1-39: nothing is loaded yet.
InitLoad ==
    /\ config = DEFAULT_CONFIG
    /\ predictive_data = <<>>
    /\ network_available = FALSE
    /\ last_network_check = 0
    /\ api_cache = <<>>
    /\ now = T0
    /\ ret = [op |-> "import"]
    /\ history = [fetches |-> <<>>, commits |-> <<>>]
    /\ \E c \in ConfigFiles, st \in StoreFiles : files = [config |-> c, store |-> st]
    /\ monitor = NoCalls
    /\ committers = NoCommits
    /\ fetchers = NoFetchers
    /\ trivia = NoGame

\* line 821: load_config(), the disk taking the write of a missing file or not
LoadConfig ==
    /\ ret.op = "import"
    /\ \E write \in {"ok", "io_error"} :
        \E r \in {load_config(config, files.config, write)} :
            /\ write = "io_error" => files.config.kind = "missing"
            /\ config' = r.config
            /\ files' = [files EXCEPT !.config = r.file]
            /\ ret' = [op |-> "load_config", raised |-> r.raised, file |-> files.config,
                       write |-> write]
    /\ UNCHANGED <<predictive_data, network_available, last_network_check, api_cache,
                   now, history, monitor, committers, fetchers, trivia>>

\* line 822: load_json(), reached when load_config() returned
LoadJson ==
    /\ ret.op = "load_config" /\ ~ret.raised
    /\ \E r \in {load_json(files.store)} :
            /\ predictive_data' = r.predictive_data
            /\ ret' = [op |-> "load_json", raised |-> r.raised, file |-> files.store]
    /\ UNCHANGED <<config, network_available, last_network_check, api_cache, now,
                   history, files, monitor, committers, fetchers, trivia>>

\* the import ends, when load_json() returned
Imported ==
    /\ ret.op = "load_json" /\ ~ret.raised
    /\ ret' = Idle
    /\ UNCHANGED <<config, predictive_data, network_available, last_network_check,
                   api_cache, now, history, files, monitor, committers, fetchers, trivia>>

\* The import of the module over every pair of files, and prediction and learning
\* after it.
NextLoad == LoadConfig \/ LoadJson \/ Imported \/ Predict \/ Commit \/ Return

SpecLoad == InitLoad /\ [][NextLoad]_vars

-----------------------------------------------------------------------------
(* The prediction service (Spec) *)

IsSuggest == ret.op = "get_predictive_suggestions"

\* what offline-only mode returns for the text of the call
OfflineWords ==
    WordsOf(get_offline_predictions_with_scores(predictive_data, ret.text, ret.n, now))

\* C1: for every text and every maxSuggestions (here: every positive one),
\* get_predictive_suggestions returns at most maxSuggestions words, in offline-only
\* mode and in online mode under each merge strategy.
C1_AtMostMaxSuggestions ==
    IsSuggest /\ ~ret.raised /\ ret.n >= 1 => Len(ret.value) <= ret.n

\* C2: get_predictive_suggestions never raises to its caller, whatever the store,
\* the probe and the remote service do.
C2_NeverRaises ==
    IsSuggest => ~ret.raised

\* the remote path failed: the network check raised, the fetch raised, or it
\* returned nothing
RemoteFailed ==
    ret.net_raised \/ (ret.fetch_called /\ (ret.fetch_raised \/ ret.online = <<>>))

\* C3: with online mode enabled, any failure of the remote path makes
\* get_predictive_suggestions return exactly the offline-only word list.
C3_RemoteFailureGivesOffline ==
    IsSuggest /\ ret.enabled /\ RemoteFailed =>
        ~ret.raised /\ ret.value = OfflineWords

\* C4: if online mode is disabled or is_network_available() returns false,
\* get_predictive_suggestions returns exactly the words of
\* get_offline_predictions_with_scores, in order, and calls neither the remote
\* fetch nor the merge.
C4_OfflineOnly ==
    IsSuggest /\ ~ret.net_raised /\ (~ret.enabled \/ ~ret.available) =>
        /\ ~ret.raised
        /\ ret.value = OfflineWords
        /\ ~ret.fetch_called
        /\ ~ret.merge_called
        /\ ret.requests = 0

\* online mode is enabled, the network check said unavailable, and three offline
\* words came back
C4_Witness ==
    /\ IsSuggest /\ ret.enabled /\ ~ret.net_raised /\ ~ret.available
    /\ ret.probes = 2
    /\ Len(ret.value) = 3

-----------------------------------------------------------------------------
(* The remote client (SpecFetch) *)

IsFetch == ret.op = "get_online_predictions"

IsLongEnough(w) == Len(w) >= 2

\* the words of a well-formed body: the uppercased "text" or "word" of each item,
\* those of at least 2 characters
WordsOfBody(body) ==
    SelectSeq([i \in 1..Len(body.items) |->
                  IF body.items[i].kind \in {"text", "word"}
                  THEN UpperStr(body.items[i].val) ELSE <<>>],
              IsLongEnough)

\* the first request the endpoint answers with a structured response (0: none)
FirstAnswer(endpoint, attempts) ==
    IF \E i \in 1..attempts : endpoint[i].kind = "json_dict"
    THEN CHOOSE i \in 1..attempts :
             /\ endpoint[i].kind = "json_dict"
             /\ \A j \in 1..(i - 1) : endpoint[j].kind # "json_dict"
    ELSE 0

\* C6: with api_max_retries = N a call makes at most N + 1 requests and none after
\* the first answered one; it yields the words of that answer, and the empty list
\* after exactly N + 1 requests when none is answered.
C6_RetryBudget ==
    IsFetch =>
        /\ ret.requests <= ret.max_retries + 1
        /\ (~ret.reached \/ ret.hit) => ret.requests = 0
        /\ (ret.reached /\ ~ret.hit) =>
              LET a == FirstAnswer(ret.endpoint, ret.max_retries + 1)
              IN  IF a = 0
                  THEN ret.requests = ret.max_retries + 1 /\ ret.value = <<>> /\ ~ret.raised
                  ELSE /\ ret.requests = a
                       /\ WellFormed(ret.endpoint[a]) =>
                             ~ret.raised /\ ret.value = WordsOfBody(ret.endpoint[a])

\* api_max_retries = 2, the endpoint failed twice and answered the third request,
\* and the call returned words
C6_Witness ==
    /\ IsFetch /\ ret.max_retries = 2 /\ ret.requests = 3
    /\ ret.endpoint[1].kind # "json_dict" /\ ret.endpoint[2].kind # "json_dict"
    /\ ret.value # <<>>

\* C7: get_online_predictions never raises to its caller, whatever the transport
\* and the shape of the response.
C7_FetchNeverRaises ==
    IsFetch => ~ret.raised

-----------------------------------------------------------------------------
(* Fusion (SpecMerge) *)

IsMerge == ret.op = "merge_predictions"

\* the first occurrences of the words of a list, in order
Distinct(ws) ==
    LET keep == {i \in 1..Len(ws) : \A j \in 1..(i - 1) : ws[j] # ws[i]}
        Pos(j) == CHOOSE i \in keep : Cardinality({m \in keep : m < i}) = j - 1
    IN  [j \in 1..Cardinality(keep) |-> ws[Pos(j)]]

\* C8: under api_first (offline_first) merge_predictions returns the first
\* maxSuggestions distinct words of the remote words followed by the offline words
\* (of the offline words followed by the remote words), for every positive
\* maxSuggestions.
C8_PriorityMerge ==
    /\ IsMerge /\ ret.strategy = "api_first" /\ ret.n >= 1 =>
          ret.value = Take(Distinct(ret.online \o WordsOf(ret.offline)), ret.n)
    /\ IsMerge /\ ret.strategy = "offline_first" /\ ret.n >= 1 =>
          ret.value = Take(Distinct(WordsOf(ret.offline) \o ret.online), ret.n)

RECURSIVE SumOf(_, _)
SumOf(f, S) == IF S = {} THEN 0
               ELSE LET x == CHOOSE x \in S : TRUE IN f[x] + SumOf(f, S \ {x})

\* The combined score of word w, times 10 * maxOfflineScore * N:
\*   offline_weight * (offlineScore / maxOfflineScore), for w in the offline list,
\*   plus api_weight * (N - i) / N for each zero-based position i of w among the N
\*   remote words.
CombinedScore(w, offline, online, api_weight, offline_weight) ==
    LET N == Len(online)
        M == MaxScore(offline)
        offline_term == IF HasWord(offline, w)
                        THEN offline_weight
                               * offline[CHOOSE i \in 1..Len(offline) : offline[i].word = w].score
                               * (IF N > 0 THEN N ELSE 1)
                        ELSE 0
        at == {i \in 1..N : online[i] = w}
    IN  offline_term + SumOf([i \in 1..N |-> api_weight * (N - (i - 1)) * M], at)

\* C9: under the weighted strategy the result is the maxSuggestions words with the
\* highest combined scores, in descending order of that score.
C9_WeightedMerge ==
    IsMerge /\ ret.strategy = "weighted" =>
        LET all == Range(WordsOf(ret.offline)) \cup Range(ret.online)
            cs(w) == CombinedScore(w, ret.offline, ret.online, ret.api_weight,
                                   ret.offline_weight)
            r == ret.value
        IN  /\ Len(r) = (IF ret.n < Cardinality(all) THEN ret.n ELSE Cardinality(all))
            /\ Range(r) \subseteq all
            /\ \A i, j \in 1..Len(r) : i < j => r[i] # r[j] /\ cs(r[i]) >= cs(r[j])
            /\ \A w \in all \ Range(r) : \A i \in 1..Len(r) : cs(r[i]) >= cs(w)

\* THERE is in both lists and its two terms add: remote [THE, THERE], offline
\* [(THERE, 5.0), (THEY, 3.0)], two suggestions, weights 0.5 and 0.5
C9_Witness ==
    /\ IsMerge /\ ret.strategy = "weighted"
    /\ ret.online = <<W_THE, W_THERE>>
    /\ ret.offline = <<[word |-> W_THERE, score |-> 5 * ScoreScale],
                       [word |-> W_THEY, score |-> 3 * ScoreScale]>>
    /\ ret.api_weight = 5 /\ ret.offline_weight = 5
    /\ ret.n = 2
    /\ ret.value = <<W_THERE, W_THE>>

-----------------------------------------------------------------------------
(* The learning store (SpecLearn) *)

CountOf(d, k) == IF DictHas(d, k) THEN DictGet(d, k).count ELSE 0

\* C10: committing the same two-word text twice raises the count of its bigram by
\* exactly 2 and leaves the bigram's last_used at the time of the second commit.
C10_TwoCommits ==
    Len(history.commits) = 2
      /\ history.commits[1].text = history.commits[2].text
      /\ Len(CommitWords(history.commits[2].text)) = 2 =>
        LET bigram == Join(CommitWords(history.commits[2].text))
        IN  /\ CountOf(history.commits[2].after, bigram)
                 = CountOf(history.commits[1].before, bigram) + 2
            /\ DictGet(history.commits[2].after, bigram).last_used = history.commits[2].t

\* "AM GOOD" committed twice, at two different times, the bigram being new
C10_Witness ==
    /\ Len(history.commits) = 2
    /\ history.commits[1].text = history.commits[2].text
    /\ Len(CommitWords(history.commits[2].text)) = 2
    /\ history.commits[1].before = <<>>
    /\ history.commits[2].t > history.commits[1].t
    /\ CountOf(history.commits[2].after, Join(<<W_AM, W_GOOD>>)) = 2

-----------------------------------------------------------------------------
(* The offline predictor (SpecOffline) *)

IsPredict == ret.op = "get_offline_predictions_with_scores"

\* the position of word w in a list of predictions, 0 when absent
PosOf(ps, w) == IF HasWord(ps, w) THEN CHOOSE i \in 1..Len(ps) : ps[i].word = w ELSE 0

\* the context and the typed prefix the predictor takes from a text
TypedContext(text) ==
    LET spaced == EndsWithSpace(RStripMarker(text))
        cleaned == Strip(RemoveMarker(UpperStr(text)))
        words == Split(cleaned)
    IN  [spaced |-> spaced,
         current_word |-> IF spaced \/ words = <<>> THEN <<>> ELSE Last(words),
         context |-> IF spaced \/ words = <<>> THEN cleaned ELSE Join(Front(words))]

\* the candidates the entries of one n-gram table give after the context words ctx
MatchedIn(entries, ctx, current_word) ==
    {Last(Split(e.key)) : e \in
        {d \in Range(entries) :
            /\ StartsWith(d.key, ctx \o <<SP>>)
            /\ (current_word = <<>> \/ StartsWith(Last(Split(d.key)), current_word))
            /\ Len(Last(Split(d.key))) >= 2
            /\ d.count >= 1}}

\* the candidates found through a trigram match for a text
TrigramMatched(pd, text) ==
    LET c == TypedContext(text)
        ws == Split(c.context)
    IN  IF c.context = <<>> \/ (~c.spaced /\ c.context = c.current_word) THEN {}
        ELSE MatchedIn(pd.trigrams,
                       IF Len(ws) >= 2 THEN Join(SubSeq(ws, Len(ws) - 1, Len(ws)))
                       ELSE c.context,
                       c.current_word)

\* the candidates found through a bigram match for a text
BigramMatched(pd, text) ==
    LET c == TypedContext(text)
        ws == Split(c.context)
    IN  IF c.context = <<>> \/ (~c.spaced /\ c.context = c.current_word) THEN {}
        ELSE MatchedIn(pd.bigrams, IF Len(ws) >= 1 THEN Last(ws) ELSE <<>>, c.current_word)

\* C11: in offline prediction, whenever a candidate is found through a trigram
\* match, every candidate found only through a bigram match is ranked after all
\* the trigram-matched candidates.
C11_BigramNeverOverrides ==
    IsPredict =>
        \A g \in TrigramMatched(predictive_data, ret.text) :
            \A b \in BigramMatched(predictive_data, ret.text)
                        \ TrigramMatched(predictive_data, ret.text) :
                HasWord(ret.value, b) =>
                    /\ HasWord(ret.value, g)
                    /\ PosOf(ret.value, g) < PosOf(ret.value, b)

\* the store of the tier-ordering scenario: trigram "I AM GOING" (count 5) and
\* bigram "AM GOOD" (count 10), last used at the same time, no frequent words
IsScenarioStore(pd) ==
    /\ pd.frequent_words = <<>>
    /\ \E lu \in {T0 - 10, T0 - 4000} :
          /\ pd.trigrams = <<Entry(Join(<<W_I, W_AM, W_GOING>>), 5, lu)>>
          /\ pd.bigrams = <<Entry(Join(<<W_AM, W_GOOD>>), 10, lu)>>

IsScenarioCall ==
    /\ IsPredict
    /\ IsScenarioStore(predictive_data)
    /\ ret.text = <<"I", " ", "A", "M", " ">>

\* C12: with only trigram "I AM GOING" (count 5) and bigram "AM GOOD" (count 10) in
\* the store, both last used at the same time, and no frequent words, the offline
\* prediction for "I AM " lists GOING before GOOD.
C12_GoingBeforeGood ==
    IsScenarioCall =>
        /\ PosOf(ret.value, W_GOING) = 1
        /\ ret.n >= 2 => PosOf(ret.value, W_GOOD) = 2

C12_Witness ==
    /\ IsScenarioCall
    /\ ret.n >= 2
    /\ PosOf(ret.value, W_GOING) = 1
    /\ PosOf(ret.value, W_GOOD) = 2

-----------------------------------------------------------------------------
(* Offline-only mode (Spec) *)

\* a cache holding a fresh answer for the text, and the other things a second run
\* may find: either availability, a check due or not, either probe, a service
\* that answers
OtherCaches(text) ==
    {<<>>, CachePut(<<>>, get_cache_key(OnlineQuery(text).left_context,
                                        OnlineQuery(text).prefix), <<W_GOOD, W_GOING>>, now)}

OtherRuns(text, n) ==
    {get_predictive_suggestions(config, predictive_data, c, a, l, text, n, now,
                                p[1], p[2], Endpoint(0, "url_error", BodyThree)) :
        c \in OtherCaches(text), a \in BOOLEAN, l \in {0, now},
        p \in {<<"ok", "ok">>, <<"other_error", "ok">>}}

\* C13: with online_mode_enabled = false, a second run of get_predictive_suggestions
\* with the same store, time and text returns the same words in the same order,
\* whatever the network state and the remote-response cache hold.
C13_OfflineDeterministic ==
    IsSuggest /\ ~config.online_mode_enabled =>
        \A r \in OtherRuns(ret.text, ret.n) : ~r.raised /\ r.value = ret.value

\* online mode is off while the cache holds answers and the network is known to be
\* up, and two or more words came back
C13_Witness ==
    /\ IsSuggest /\ ~config.online_mode_enabled
    /\ api_cache # <<>> /\ network_available
    /\ Len(ret.value) >= 2

-----------------------------------------------------------------------------
(* The scorers (SpecScore) *)

IsScore == ret.op \in {"compute_ngram_score", "compute_freq_score"}

\* the score of the entry of the call, had it been last used `age` seconds before
ScoreAtAge(call, age) ==
    IF call.op = "compute_ngram_score"
    THEN compute_ngram_score(Entry(<<>>, call.count, call.t - age), call.ngram_type,
                             call.candidate, call.current_word, call.t)
    ELSE compute_freq_score(Entry(<<>>, call.count, call.t - age), call.t)

\* 2: used less than an hour ago; 1: between an hour and seven days ago;
\* 0: more than seven days ago
RecencyTier(age) ==
    IF age < 3600 THEN 2 ELSE IF age < 604800 THEN 1 ELSE 0

\* C14: count, n-gram kind, candidate and typed prefix being equal, an entry last
\* used less than an hour ago scores strictly higher than one last used between an
\* hour and seven days ago, which scores strictly higher than one last used more
\* than seven days ago, in compute_ngram_score and in compute_freq_score.
C14_RecencyTiers ==
    IsScore =>
        \A older \in Ages :
            RecencyTier(older) < RecencyTier(ret.age) => ScoreAtAge(ret, older) < ret.value

\* an entry used 30 minutes ago outranks the same entry used 10 days ago, and one
\* used a day ago does too
C14_Witness ==
    /\ IsScore /\ ret.age = 1800
    /\ ScoreAtAge(ret, 864000) < ScoreAtAge(ret, 86400)
    /\ ScoreAtAge(ret, 86400) < ret.value

-----------------------------------------------------------------------------
(* The network monitor (SpecNet) *)

\* the calls of is_network_available that have ended
Ended == {c \in Callers : monitor.calls[c].pc = "done"}

\* C15: is_network_available probes at most once per check interval under any
\* interleaving of callers: a thread that probes does so more than one interval
\* (by the clock read at entry) after the probe before, so a call made within the
\* interval probes nothing and no two callers probe for the same expiry.
C15_OncePerInterval ==
    \A c \in Callers :
        LET call == monitor.calls[c]
        IN  call.probed /\ call.prev_probe # Never =>
                call.current_time - call.prev_probe > NetworkCheckInterval

\* C16: a caller that arrives while another caller's probe is in flight returns the
\* availability cached when it arrived, without waiting for that probe and without
\* probing itself.
C16_NoWaitDuringProbe ==
    \A c \in Ended :
        LET call == monitor.calls[c]
        IN  call.in_flight =>
                /\ ~call.waited
                /\ ~call.probed
                /\ ~call.raised /\ call.value = call.cached

\* C17: is_network_available never raises: a probe that fails, however it fails,
\* ends with the value false; the second address is tried only after the first
\* failed.
C17_ProbeNeverRaises ==
    \A c \in Ended :
        LET call == monitor.calls[c]
        IN  /\ ~call.raised
            /\ call.probed => call.attempts = (IF call.first_ok THEN 1 ELSE 2)

-----------------------------------------------------------------------------
(* The remote-response cache (SpecCache) *)

\* the entries of cache a whose key cache b does not hold
Dropped(a, b) ==
    CHOOSE r \in {{e \in Range(a) : e.key \notin ks} :
                     ks \in {{b[i].key : i \in 1..Len(b)}}} : TRUE

\* the timestamps in a set of cache entries
StampsOf(es) == {e.timestamp : e \in es}

\* a call of get_online_predictions: apart from the key asked about, nothing leaves
\* the cache unless the write brings it to CacheLimit + 1 entries, and then exactly
\* one entry leaves, none having a smaller timestamp, and all others stay as they
\* were
EvictsOldest ==
    ret'.op = "get_online_predictions" =>
        \A others \in {Range(CacheDel(api_cache, ret'.key))}, after \in {Range(api_cache')} :
            \A gone \in {Dropped(CacheDel(api_cache, ret'.key), api_cache')} :
                LET overflow == /\ CacheHas(api_cache', ret'.key)
                                /\ Cardinality(others) = CacheLimit
                IN  /\ others \ gone \subseteq after
                    /\ ~overflow => gone = {}
                    /\ overflow =>
                          /\ Cardinality(gone) = 1
                          /\ \A g \in StampsOf(gone), e \in StampsOf(after \cup others) :
                                g <= e

\* C18: after any sequence of get_online_predictions calls the cache holds at most
\* 100 entries; a write that brings it to 101 removes exactly one entry, one with
\* the smallest timestamp of all, and no other.
C18_CacheBounded ==
    [](Len(api_cache) <= CacheLimit) /\ [][EvictsOldest]_vars

\* a call has written its answer into a cache that was full, and the entry written
\* 250 s before T0, in the middle of the cache, is the one that left
C18_Witness ==
    /\ ret.op = "get_online_predictions" /\ ~ret.hit /\ ~ret.raised
    /\ CacheHas(api_cache, ret.key)
    /\ Len(api_cache) = CacheLimit
    /\ Dropped(FilledCache(CacheLimit, CacheLimit \div 2), api_cache)
         = {FilledCache(CacheLimit, CacheLimit \div 2)[CacheLimit \div 2]}

-----------------------------------------------------------------------------
(* Loading (SpecLoad) *)

\* C19: load_config never raises; a missing file is written with the defaults, which
\* are used; a malformed file (unparseable, or not a JSON object) leaves
\* DEFAULT_CONFIG in memory; from a JSON object each option takes the persisted
\* value if present and its default otherwise.
C19_LoadConfigRecovers ==
    ret.op = "load_config" =>
        /\ ~ret.raised
        /\ ret.file.kind = "missing" =>
              /\ config = DEFAULT_CONFIG
              /\ ret.write = "ok" => files.config = ObjectFile(DEFAULT_CONFIG)
        /\ ret.file.kind \notin {"missing", "object"} => config = DEFAULT_CONFIG
        /\ ret.file.kind = "object" =>
              \A k \in DOMAIN DEFAULT_CONFIG :
                  config[k] = IF k \in DOMAIN ret.file.value THEN ret.file.value[k]
                              ELSE DEFAULT_CONFIG[k]

\* the mappings a store must hold
Mappings == {"frequent_words", "bigrams", "trigrams"}

\* the learning-store file is missing, empty or corrupt
IsCorrupt(file) ==
    file.kind # "object" \/ ~(Mappings \subseteq DOMAIN file.value)

\* C20: load_json never raises; a missing, empty or corrupt learning-store file
\* (unparseable, or lacking one of the three mappings) leaves three empty mappings
\* in memory.
C20_LoadJsonRecovers ==
    ret.op = "load_json" =>
        /\ ~ret.raised
        /\ IsCorrupt(ret.file) => predictive_data = EmptyStore

-----------------------------------------------------------------------------
(* Fusion under any configured strategy (SpecMerge) *)

\* what the call returns when the configuration says "weighted"
WeightedValue ==
    merge_predictions([config EXCEPT !.merge_strategy = "weighted"],
                      ret.offline, ret.online, ret.n)

\* C21: when merge_strategy is anything other than api_first or offline_first, an
\* unknown value included, merge_predictions returns exactly what the weighted
\* strategy returns for the same inputs.
C21_UnknownStrategyIsWeighted ==
    IsMerge /\ ret.strategy \notin {"api_first", "offline_first"} =>
        ret.value = WeightedValue

\* an unknown strategy gave two words or more, and neither priority order
C21_Witness ==
    /\ IsMerge /\ ret.strategy = "round_robin"
    /\ Len(ret.value) >= 2
    /\ ret.value = WeightedValue
    /\ ret.value # merge_api_first(ret.offline, ret.online, ret.n)
    /\ ret.value # merge_offline_first(ret.offline, ret.online, ret.n)

-----------------------------------------------------------------------------
(* Concurrent commits (SpecRace) *)

\* every thread has committed the text and returned
AllCommitted ==
    \A c \in Committers : committers.calls[c].pc = "done" /\ ~committers.calls[c].raised

\* the count of an entry, 0 when there is none
CountIn(d, k) == IF DictHas(d, k) THEN DictGet(d, k).count ELSE 0

\* how often entry k is touched by one commit of the text
Occurrences(keys, k) == Cardinality({i \in 1..Len(keys) : keys[i] = k})

\* C22: concurrent update_word_usage calls lose no increment: when every thread has
\* committed the same text, the count of each of its words, bigrams and trigrams
\* is higher than before by the number of threads (times its occurrences in the
\* text), in memory and in the persisted store.
C22_NoLostIncrement ==
    AllCommitted =>
        LET keys == CommitKeys(committers.text)
        IN  /\ \A i \in 1..Len(keys) :
                  CountIn(predictive_data[keys[i].table], keys[i].key)
                    = CountIn(committers.start[keys[i].table], keys[i].key)
                        + NumCommitters * Occurrences(keys, keys[i])
            /\ files.store = save_json(predictive_data)


\* a thread leaves update_word_usage in this step without an exception
ReturnsNormally(c) ==
    /\ committers.calls[c].pc = "close"
    /\ committers'.calls[c].pc = "done"
    /\ ~committers'.calls[c].raised

\* C23: the learning store is write-through: whenever update_word_usage returns
\* normally the persisted store equals the in-memory store (a failure of the
\* save is raised to the caller, never swallowed).
C23_WriteThrough ==
    [][\A c \in Committers :
          ReturnsNormally(c) => files'.store = save_json(predictive_data')]_vars


-----------------------------------------------------------------------------
(* The growth of the learning store (SpecGrow) *)

StoreTables == {"frequent_words", "bigrams", "trigrams"}

\* every entry of d is still in e, with a count at least as high
KeptIn(d, e) ==
    \A i \in 1..Len(d) : DictHas(e, d[i].key) /\ DictGet(e, d[i].key).count >= d[i].count

UpperKeyed(d) == \A i \in 1..Len(d) : UpperStr(d[i].key) = d[i].key

\* C24: the learning store grows monotonically: over any sequence of
\* get_predictive_suggestions and update_word_usage calls after the load no entry
\* of frequent_words, bigrams or trigrams is removed, no count decreases, and
\* every key is uppercase.
C24_StoreGrows ==
    /\ [](\A table \in StoreTables : UpperKeyed(predictive_data[table]))
    /\ [][\A table \in StoreTables :
             KeptIn(predictive_data[table], predictive_data'[table])]_vars

\* a suggestion is asked for after two commits, the later of which counted an
\* existing bigram up and was typed in lowercase
C24_Witness ==
    /\ ret.op = "get_predictive_suggestions"
    /\ Len(history.commits) = 2
    /\ history.commits[2].text # UpperStr(history.commits[2].text)
    /\ \E i \in 1..Len(history.commits[2].before) :
          DictGet(history.commits[2].after, history.commits[2].before[i].key).count
            > history.commits[2].before[i].count


-----------------------------------------------------------------------------
(* The configured check interval (SpecInterval) *)

\* C25: the minimum spacing between two network probes is the configured
\* network_check_interval: is_network_available probes exactly when more than
\* the configured interval has passed since the last check, and serves the
\* cached value otherwise.
C25_ConfiguredInterval ==
    ret.op = "is_network_available" =>
        (ret.probes > 0 <=> ret.t - ret.last > ret.interval)


-----------------------------------------------------------------------------
(* The cache key (SpecKey) *)

\* C26: the cache key is case- and space-normalized: a get_online_predictions call
\* whose leftContext and prefix differ from those of a call answered within the
\* TTL only in letter case or in leading or trailing whitespace is served from
\* the cache and issues no network call.
C26_KeyNormalized ==
    /\ ret.op = "get_online_predictions"
    /\ ret.reached
    /\ ret.before.answered_at # Never
    /\ ret.t - ret.before.answered_at < ret.ttl
    => ret.hit /\ ret.requests = 0


-----------------------------------------------------------------------------
(* What a fetch leaves in the cache (SpecFetch) *)

\* a call of get_online_predictions is made in this step and gets past the
\* network check
FetchStep == ret.op = "idle" /\ ret'.op = "get_online_predictions" /\ ret'.reached

\* every request of the call just made failed
AllAttemptsFailed ==
    /\ ret'.requests = ret'.max_retries + 1
    /\ \A i \in 1..ret'.requests : make_api_request(ret'.endpoint[i]) = None

\* the call just made was answered, and the answer held no usable candidate
AnsweredWithNothing ==
    /\ ret'.requests >= 1
    /\ ~ret'.raised
    /\ make_api_request(ret'.endpoint[ret'.requests]) # None
    /\ ret'.value = <<>>

\* C27: a successful response is cached even when it yields no usable candidate,
\* and a fetch for a key cached within the TTL returns the cached list (the empty
\* one included) without a network call; a fetch whose attempts all failed leaves
\* no cache entry for its key, and a fetch for a key without entry contacts the
\* service.
C27_EmptyCachedFailureNot ==
    [][FetchStep =>
         /\ AnsweredWithNothing =>
               /\ CacheHas(api_cache', ret'.key)
               /\ CacheGet(api_cache', ret'.key).value = <<>>
               /\ CacheGet(api_cache', ret'.key).timestamp = ret'.t
         /\ CacheHas(api_cache, ret'.key)
              /\ ret'.t - CacheGet(api_cache, ret'.key).timestamp < ret'.ttl =>
               /\ ret'.hit /\ ret'.requests = 0
               /\ ret'.value = CacheGet(api_cache, ret'.key).value
         /\ ~ret'.hit /\ AllAttemptsFailed =>
               /\ ret'.value = <<>>
               /\ ~CacheHas(api_cache', ret'.key)
         /\ ~CacheHas(api_cache, ret'.key) => ret'.requests >= 1]_vars

\* a fetch is answered with the empty list from an entry written by an earlier,
\* answered fetch, later but within the TTL, without a request
C27_Witness ==
    /\ ret.op = "get_online_predictions"
    /\ ret.reached /\ ret.hit /\ ret.requests = 0 /\ ret.value = <<>>
    /\ ret.before.requests >= 1
    /\ ret.before.answered_at = ret.before.called_at
    /\ ret.t > ret.before.answered_at
    /\ CacheHas(api_cache, ret.key)
    /\ CacheGet(api_cache, ret.key).value = <<>>
    /\ CacheGet(api_cache, ret.key).timestamp = ret.before.answered_at


-----------------------------------------------------------------------------
(* The tiers of offline prediction (SpecOffline) *)

NoDuplicates(ps) == \A i, j \in 1..Len(ps) : ps[i].word = ps[j].word => i = j

Descending(ps) == \A i, j \in 1..Len(ps) : i < j => ps[i].score >= ps[j].score

\* the Tier 1 candidates of a text, by descending score
Tier1(pd, text, t) ==
    LET c == TypedContext(text)
    IN  SortDesc(NgramPredictions(pd, c.context, c.current_word, c.spaced, t))

\* the Tier 2 candidates of a text, by descending score
Tier2(pd, text, t) ==
    SortDesc(FreqPredictions(pd.frequent_words, TypedContext(text).current_word, t, <<>>))

DefaultPairs == [i \in 1..Len(DEFAULT_WORDS) |-> [word |-> DEFAULT_WORDS[i], score |-> ScoreScale]]

\* those of ps whose word is not in seen
NotIn(ps, seen) == SelectSeq(ps, LAMBDA p : ~HasWord(seen, p.word))

\* C28: for non-empty input the offline result is assembled in tier order without
\* duplicates: all Tier 1 candidates by descending score, then the Tier 2
\* completions not yet present by descending score, then the default words not
\* yet present with score 1.0, the whole truncated to maxSuggestions.
C28_TierOrder ==
    IsPredict /\ ret.text # <<>> =>
        \A t1 \in {Tier1(predictive_data, ret.text, now)},
           t2 \in {Tier2(predictive_data, ret.text, now)} :
            \A new2 \in {NotIn(t2, t1)} :
            \A new3 \in {NotIn(DefaultPairs, t1 \o new2)} :
                /\ ret.value = Take(t1 \o new2 \o new3, ret.n)
                /\ NoDuplicates(ret.value)
                /\ Descending(t1) /\ Descending(new2)
                /\ Len(ret.value) <= ret.n

\* a result made of all three tiers, where a frequent word that Tier 1 had
\* already given was skipped
C28_Witness ==
    /\ IsPredict /\ ret.text # <<>> /\ ret.n = 3
    /\ Len(Tier1(predictive_data, ret.text, now)) = 2
    /\ \E p \in Range(Tier2(predictive_data, ret.text, now)) :
          HasWord(Tier1(predictive_data, ret.text, now), p.word)
    /\ WordsOf(ret.value) = <<W_GOING, W_GOOD, DEFAULT_WORDS[1]>>


\* the text holds no word: it is empty or made of spaces and markers only
NoWordTyped(text) == \A i \in 1..Len(text) : text[i] \in {SP, BAR}

\* the frequent words of at least 2 characters with their frequency scores, in the
\* order of the store
FrequentPairs(entries, t) ==
    LET long == SelectSeq(entries, LAMBDA e : Len(e.key) >= 2)
    IN  [i \in 1..Len(long) |-> [word |-> long[i].key, score |-> compute_freq_score(long[i], t)]]

\* C29: for input with no completed word (empty, whitespace-only or marker-only)
\* offline prediction returns the frequent words of at least 2 characters by
\* descending frequency score, padded with the default words YES, NO, HELP not
\* already present, truncated to maxSuggestions; with an empty learning store and
\* maxSuggestions >= 3 the result is exactly [YES, NO, HELP].
C29_NoWordTyped ==
    IsPredict /\ NoWordTyped(ret.text) =>
        \A words \in {SortDesc(FrequentPairs(predictive_data.frequent_words, now))} :
            /\ Descending(words)
            /\ ret.value = Take(words \o NotIn(DefaultPairs, words), ret.n)
            /\ predictive_data.frequent_words = <<>> /\ ret.n >= 3 =>
                  WordsOf(ret.value) = DEFAULT_WORDS

\* the marker alone is typed; the store holds GOOD and YES, so the result is
\* padded with the default words but YES
C29_Witness ==
    /\ IsPredict /\ ret.text = <<BAR>> /\ ret.n = 3
    /\ Len(predictive_data.frequent_words) = 2
    /\ predictive_data.bigrams # <<>>
    /\ WordsOf(ret.value) = <<W_GOOD, DEFAULT_WORDS[1], DEFAULT_WORDS[2]>>


\* the words Tier 2 may give for the partial word
Tier2Words(pd, current_word) ==
    {e.key : e \in {d \in Range(pd.frequent_words) :
                       StartsWith(d.key, current_word) /\ d.key # current_word
                         /\ Len(d.key) >= 2}}

\* w continues an n-gram of the store: it is the last word of a trigram or bigram
\* with count >= 1
ContinuesNgram(pd, w) ==
    \E e \in Range(pd.trigrams) \cup Range(pd.bigrams) :
        e.count >= 1 /\ Last(Split(e.key)) = w

\* C30: Tier 1 contributes candidates only when the context is non-empty and
\* distinct from the partial word, and every candidate it contributes starts with
\* the partial word (or the partial word is empty), has at least 2 characters and
\* comes from an entry with count >= 1; otherwise the result holds only Tier 2
\* and default words.
C30_NgramConditions ==
    IsPredict =>
        \A c \in {TypedContext(ret.text)} :
            \A i \in 1..Len(ret.value) :
                \/ ret.value[i].word \in Tier2Words(predictive_data, c.current_word)
                \/ ret.value[i].word \in Range(DEFAULT_WORDS)
                \/ /\ c.context # <<>> /\ c.context # c.current_word
                   /\ c.current_word = <<>> \/ StartsWith(ret.value[i].word, c.current_word)
                   /\ Len(ret.value[i].word) >= 2
                   /\ ContinuesNgram(predictive_data, ret.value[i].word)

\* "AM AM" is typed and the store holds the bigram AM AMEN: the context equals the
\* partial word, and the result is made of the default words
C30_Witness ==
    /\ IsPredict /\ ret.text = <<"A", "M", " ", "A", "M">> /\ ret.n = 3
    /\ \E e \in Range(predictive_data.bigrams) : Last(Split(e.key)) = W_AMEN /\ e.count >= 1
    /\ predictive_data.frequent_words = <<>>
    /\ WordsOf(ret.value) = DEFAULT_WORDS


\* C31: the two offline variants agree: for every learning store, text and
\* maxSuggestions >= 0, get_offline_predictions(text, n) is the list of the words
\* of get_offline_predictions_with_scores(text, n), in the same order.
C31_VariantsAgree ==
    ret.op = "get_offline_predictions" =>
        ret.value = WordsOf(get_offline_predictions_with_scores(predictive_data, ret.text,
                                                                ret.n, now))

\* the word variant is asked for three words after "I AM G" on a store where GOOD
\* is both an n-gram candidate and a frequent word and YES is a frequent word
C31_Witness ==
    /\ ret.op = "get_offline_predictions" /\ ret.n = 3
    /\ ret.text = <<"I", " ", "A", "M", " ", "G">>
    /\ Len(predictive_data.frequent_words) = 2
    /\ ret.value = <<W_GOING, W_GOOD, DEFAULT_WORDS[1]>>


-----------------------------------------------------------------------------
(* What one suggestion call may do (Spec) *)

\* the availability checks of the call just returned: one at line 304 when online
\* mode is enabled, one more inside get_online_predictions
ChecksMade == (IF ret.enabled THEN 1 ELSE 0) + (IF ret.fetch_called THEN 1 ELSE 0)

\* C32: every get_predictive_suggestions call ends with a result, after at most
\* two availability checks of at most two connection attempts each and at most
\* api_max_retries + 1 remote requests.
C32_EndsWithResult ==
    IsSuggest =>
        /\ ~ret.raised
        /\ ChecksMade <= 2
        /\ ret.probes <= 2 * ChecksMade
        /\ ret.requests <= config.api_max_retries + 1


-----------------------------------------------------------------------------
(* The cache under concurrent fetches (SpecFetchers) *)

\* the threads between taking and releasing _api_cache_lock
InCriticalSection ==
    {c \in Fetchers :
        fetchers.calls[c].pc \in {"test", "read", "expire", "insert", "oldest", "evict"}}

\* C33: under any interleaving of concurrent get_online_predictions calls the
\* read-check-write sequences on the cache run one at a time under the cache
\* lock: no call fails on an entry another call has deleted or evicted, and the
\* cache holds at most 100 entries whenever no thread is in a critical section.
C33_CacheLockAtomic ==
    /\ Cardinality(InCriticalSection) <= 1
    /\ \A c \in Fetchers : ~fetchers.calls[c].failed
    /\ InCriticalSection = {} => Len(api_cache) <= CacheLimit

\* a thread stands at the lock while another, holding it, is about to delete the
\* stale entry of the key both ask for; the cache is full
C33_Witness ==
    \E c, d \in Fetchers :
        /\ c # d
        /\ fetchers.lock = c /\ fetchers.calls[c].pc = "expire"
        /\ fetchers.calls[d].pc = "lock"
        /\ fetchers.calls[d].key = fetchers.calls[c].key
        /\ Len(api_cache) = CacheLimit


-----------------------------------------------------------------------------
(* Prediction and the learning store (SpecRead) *)

PredictionOps ==
    {"get_predictive_suggestions", "get_offline_predictions",
     "get_offline_predictions_with_scores"}

-----------------------------------------------------------------------------
(* Offline mode and the network (Spec) *)

\* C35: while online_mode_enabled is false, get_predictive_suggestions performs
\* no network activity at all: it starts no availability probe and no remote
\* request, and leaves the cached network state and the remote-response cache
\* unchanged.
C35_OfflineModeNoNetwork ==
    [][ret.op = "idle" /\ ret'.op = "get_predictive_suggestions"
          /\ ~config.online_mode_enabled =>
          /\ ret'.probes = 0 /\ ret'.requests = 0 /\ ~ret'.fetch_called
          /\ network_available' = network_available
          /\ last_network_check' = last_network_check
          /\ api_cache' = api_cache]_vars

\* a suggestion made in offline mode at a time when the cached network state is
\* stale, so that a call in online mode would have probed
C35_Witness ==
    /\ ret.op = "get_predictive_suggestions"
    /\ ~ret.enabled /\ ~config.online_mode_enabled
    /\ now - last_network_check >= NetworkCheckInterval
    /\ ret.probes = 0


-----------------------------------------------------------------------------
(* Distinct suggestions (Spec) *)

PairwiseDistinct(ws) == \A i, j \in 1..Len(ws) : ws[i] = ws[j] => i = j

\* C36: every list returned by get_predictive_suggestions contains pairwise
\* distinct words, in offline-only mode and under each merge strategy, even when
\* the remote response repeats a word or a word occurs in both the offline and
\* the remote list.
C36_DistinctSuggestions == IsSuggest => PairwiseDistinct(ret.value)

\* a merged answer where the remote list repeats a word and shares a word with
\* the offline list
C36_Witness ==
    /\ IsSuggest /\ ret.merge_called /\ Len(ret.value) >= 2
    /\ ~PairwiseDistinct(ret.online)
    /\ \E i \in 1..Len(ret.offline) : ret.offline[i].word \in Range(ret.online)


-----------------------------------------------------------------------------
(* The context of the n-gram candidates (SpecContext) *)

\* w was recorded right after the context words: a trigram entry made of the last
\* two context words and w, or a bigram entry made of the last context word and w
FollowsDirectly(pd, ctx_words, w) ==
    \/ /\ Len(ctx_words) >= 2
       /\ \E e \in Range(pd.trigrams) :
              Split(e.key) = <<ctx_words[Len(ctx_words) - 1], Last(ctx_words), w>>
    \/ /\ Len(ctx_words) >= 1
       /\ \E e \in Range(pd.bigrams) : Split(e.key) = <<Last(ctx_words), w>>

\* C37: every n-gram (Tier 1) candidate is a word that was recorded as directly
\* following the matched context: a candidate taken from a trigram is the word
\* right after the last two context words, and one taken from a bigram is the
\* word right after the last context word, also when the context consists of a
\* single word.
C37_CandidateFollowsContext ==
    IsPredict =>
        \A c \in {TypedContext(ret.text)} :
            \A p \in Range(NgramPredictions(predictive_data, c.context, c.current_word,
                                            c.spaced, now)) :
                FollowsDirectly(predictive_data, Split(c.context), p.word)

-----------------------------------------------------------------------------
(* The trivia game (SpecTrivia) *)

\* C38: in the trivia game, backward scanning started by holding the space key
\* for 3 seconds stops when the key is released: after on_space_release no
\* further move_scan_backward step occurs and scanning_backward stays false until
\* space is pressed and held again.
C38_ReleaseStopsBackward ==
    trivia.space_press_time = NotSet =>
        ~trivia.scanning_backward /\ trivia.op # "space_long_hold"

\* the buttons of the screen shown that can be used
ScreenButtons ==
    SelectSeq(trivia.displayed,
              LAMBDA b : ~(b.command = "check_answer" /\ trivia.answers_disabled))

\* C39: in the trivia game, whenever a screen is shown (including the first
\* topic-selection screen right after start-up), the buttons list holds that
\* screen's buttons and current_button_index is a valid index into it, so that
\* space scanning and Return selection reach every button displayed.
C39_ButtonsOfScreen ==
    ~trivia.destroyed =>
        /\ trivia.buttons = ScreenButtons
        /\ trivia.current_button_index \in 0..(Len(trivia.buttons) - 1)

====
